---- MODULE Spec2Model ----
(***************************************************************************)
(* Per-link configuration state machine of networkd                       *)
(* (src/network/networkd-link.c).  One Link, its rtnl request queue, the   *)
(* kernel's address/route tables for the interface, and the DHCPv4 and     *)
(* IPv4LL clients the Link owns.                                           *)
(*                                                                         *)
(* A handler of the C file is an operator from a "world" record (the Link  *)
(* fields plus the objects it calls into) to the world record after the    *)
(* handler has returned; nested calls are nested operator applications.    *)
(* assert() aborts the daemon: the field "aborted" names the assertion     *)
(* that failed and no further step is taken.                               *)
(***************************************************************************)
EXTENDS Integers, Sequences, FiniteSets, TLC

\* ---------------------------------------------------------------- bounds
MaxQueue == 4        \* external events are accepted while fewer requests are in flight
MaxEvents == 4       \* number of external events (DHCP, IPv4LL, RTM_NEWLINK) in a run

\* ------------------------------------------------------------- constants
IFF_UP == "UP"
IFF_LOWER_UP == "LOWER_UP"
IFF_DORMANT == "DORMANT"
AllFlags == {IFF_UP, IFF_LOWER_UP, IFF_DORMANT}
\* the flag words an RTM_NEWLINK carries
FlagWords == {{}, {IFF_UP}, {IFF_UP, IFF_LOWER_UP}, {IFF_UP, IFF_LOWER_UP, IFF_DORMANT}}

LINK_STATE_INITIALIZING == "INITIALIZING"
LINK_STATE_ENSLAVING == "ENSLAVING"
LINK_STATE_SETTING_ADDRESSES == "SETTING_ADDRESSES"
LINK_STATE_SETTING_ROUTES == "SETTING_ROUTES"
LINK_STATE_CONFIGURED == "CONFIGURED"
LINK_STATE_FAILED == "FAILED"

DHCP_EVENT_NO_LEASE == "NO_LEASE"
DHCP_EVENT_EXPIRED == "EXPIRED"
DHCP_EVENT_STOP == "STOP"
DHCP_EVENT_IP_CHANGE == "IP_CHANGE"
DHCP_EVENT_IP_ACQUIRE == "IP_ACQUIRE"
IPV4LL_EVENT_STOP == "STOP"
IPV4LL_EVENT_CONFLICT == "CONFLICT"
IPV4LL_EVENT_BIND == "BIND"
EVENT_ERROR == "ERROR"          \* a negative event value

CACHE_INFO_INFINITY_LIFE_TIME == 1    \* ifa_prefered: 0 = deprecated, 1 = infinite

NoAbort == "none"
\* the local calls that can fail while a handler runs: the submission of the
\* SETLINK that brings the link up, and the allocation of an address or route
NoFault == "none"
Faults == {"link_up", "address_new_dynamic", "route_new_dynamic"}
NoLease == 0
Leases == {1, 2}                \* two distinct leases a server can hand out
LeaseMtu(l) == IF l = 1 THEN 1400 ELSE 0            \* 0: the lease carries no MTU
LeaseHostname(l) == IF l = 1 THEN "host1" ELSE "-"  \* "-": the lease carries no hostname
LeaseHasDns(l) == l = 1
MtuValues == {1500}             \* IFLA_MTU values an RTM_NEWLINK carries
JumboMtu == 9000                \* the IFLA_MTU after the administrator changed the MTU

\* ---------------------------------------------------- the network profile
NullNetwork ==
    [present |-> FALSE, dhcp |-> FALSE, ipv4ll |-> FALSE, dhcp_critical |-> FALSE,
     dhcp_mtu |-> FALSE, dhcp_dns |-> FALSE, dhcp_hostname |-> FALSE,
     static_addresses |-> <<>>, static_routes |-> <<>>, netdevs |-> <<>>]

Profile(dhcp, ll, crit, mtu, dns, hn, sa, sr, nd) ==
    [present |-> TRUE, dhcp |-> dhcp, ipv4ll |-> ll, dhcp_critical |-> crit,
     dhcp_mtu |-> mtu, dhcp_dns |-> dns, dhcp_hostname |-> hn,
     static_addresses |-> sa, static_routes |-> sr, netdevs |-> nd]

\* the profiles the matcher can return (scenarios A-F of the design and mixes)
Profiles ==
    { Profile(FALSE, FALSE, FALSE, FALSE, FALSE, FALSE, <<>>, <<>>, <<>>),
      Profile(FALSE, FALSE, FALSE, FALSE, FALSE, FALSE, <<1>>, <<1>>, <<>>),
      Profile(FALSE, FALSE, FALSE, FALSE, FALSE, FALSE, <<1>>, <<>>, <<"bridge", "bond">>),
      Profile(TRUE,  FALSE, FALSE, TRUE,  TRUE,  TRUE,  <<>>, <<>>, <<>>),
      Profile(TRUE,  TRUE,  TRUE,  TRUE,  FALSE, TRUE,  <<>>, <<>>, <<>>),
      Profile(TRUE,  TRUE,  FALSE, FALSE, FALSE, FALSE, <<>>, <<>>, <<>>),
      Profile(TRUE,  FALSE, FALSE, FALSE, FALSE, FALSE, <<1>>, <<1>>, <<>>),
      Profile(FALSE, TRUE,  FALSE, FALSE, FALSE, FALSE, <<>>, <<>>, <<"bridge">>),
      Profile(FALSE, TRUE,  FALSE, FALSE, FALSE, FALSE, <<>>, <<>>, <<>>) }

\* ------------------------------------------------------------- variables
VARIABLES
    state,            \* link->state
    flags,            \* link->flags
    network,          \* link->network (NullNetwork: NULL)
    enslaving,        \* link->enslaving
    addr_messages,    \* link->addr_messages
    route_messages,   \* link->route_messages
    dhcp_client,      \* link->dhcp_client and the client's own state
    dhcp_lease,       \* link->dhcp_lease (NoLease: NULL)
    ipv4ll,           \* link->ipv4ll and the client's own state
    original_mtu,     \* link->original_mtu
    state_file,       \* what link_save last wrote to link->state_file
    rtnl,             \* requests submitted to the kernel and not yet acknowledged, in order
    hostname,         \* transient hostname last sent to hostnamed
    resolv_conf,      \* number of manager_update_resolv_conf calls, capped at 1
    aborted,          \* the assertion that aborted the daemon, or NoAbort
    kaddrs,           \* addresses installed on the interface
    kroutes,          \* routes installed for the interface
    last,             \* the handler the event loop ran last
    events,           \* external events delivered so far
    links,            \* manager->links: the Link registered for an ifindex
    allocated         \* the Links allocated and not freed, each with its link->ifindex

linkvars == <<state, flags, network, enslaving, addr_messages, route_messages,
              dhcp_client, dhcp_lease, ipv4ll, original_mtu, state_file, rtnl,
              hostname, resolv_conf, aborted>>
vars == <<state, flags, network, enslaving, addr_messages, route_messages,
          dhcp_client, dhcp_lease, ipv4ll, original_mtu, state_file, rtnl,
          hostname, resolv_conf, aborted, kaddrs, kroutes, last, events,
          links, allocated>>

\* the world a handler runs in, as a record
World ==
    [state |-> state, flags |-> flags, network |-> network, enslaving |-> enslaving,
     addr_messages |-> addr_messages, route_messages |-> route_messages,
     dhcp_client |-> dhcp_client, dhcp_lease |-> dhcp_lease, ipv4ll |-> ipv4ll,
     original_mtu |-> original_mtu, state_file |-> state_file, rtnl |-> rtnl,
     hostname |-> hostname, resolv_conf |-> resolv_conf, aborted |-> aborted,
     fault |-> NoFault, ret |-> 0]

\* the fields of the Link become those of the world a function returned
LinkBecomes(w) ==
    /\ state' = w.state
    /\ flags' = w.flags
    /\ network' = w.network
    /\ enslaving' = w.enslaving
    /\ addr_messages' = w.addr_messages
    /\ route_messages' = w.route_messages
    /\ dhcp_client' = w.dhcp_client
    /\ dhcp_lease' = w.dhcp_lease
    /\ ipv4ll' = w.ipv4ll
    /\ original_mtu' = w.original_mtu
    /\ state_file' = w.state_file
    /\ rtnl' = w.rtnl
    /\ hostname' = w.hostname
    /\ resolv_conf' = w.resolv_conf
    /\ aborted' = w.aborted

\* the world after a handler of the Link returned becomes the next state
Becomes(w) ==
    /\ LinkBecomes(w)
    /\ UNCHANGED <<links, allocated>>

NoClient == [present |-> FALSE, running |-> FALSE, lease |-> NoLease, stop_pending |-> FALSE]
NoIpv4ll == [present |-> FALSE, running |-> FALSE, bound |-> FALSE, stop_pending |-> FALSE]
NoFile == [written |-> FALSE, state_line |-> "", lease_line |-> FALSE]

\* a request to the kernel: kind, the object it is about, and an argument
Req(kind, obj, arg) == [kind |-> kind, obj |-> obj, arg |-> arg]
Abort(w, what) == [w EXCEPT !.aborted = what]
Submit(w, req) == [w EXCEPT !.rtnl = Append(@, req)]
\* the value a function returns to its caller: 0, or a negative errno
Return(w, r) == [w EXCEPT !.ret = r]
\* address_new_dynamic() / route_new_dynamic() < 0: out of memory
address_new_dynamic_fails(w) == w.fault = "address_new_dynamic"
route_new_dynamic_fails(w) == w.fault = "route_new_dynamic"

\* ------------------------------------------------- the clients' accessors
\* sd_ipv4ll_get_address() >= 0: the client holds a claimed address
ipv4ll_is_bound(ll) == ll.bound
sd_ipv4ll_is_running(ll) == ll.running
sd_ipv4ll_start(ll) == [ll EXCEPT !.running = TRUE]
\* the STOP event reaches the Link's callback later, from the event loop
sd_ipv4ll_stop(ll) == [ll EXCEPT !.running = FALSE, !.stop_pending = TRUE]
sd_dhcp_client_start(c) == [c EXCEPT !.running = TRUE]
sd_dhcp_client_stop(c) == [c EXCEPT !.running = FALSE, !.stop_pending = TRUE]

\* ------------------------------------------------------------- link_save
link_state_to_string(s) ==
    CASE s = LINK_STATE_INITIALIZING -> "configuring"
      [] s = LINK_STATE_ENSLAVING -> "configuring"
      [] s = LINK_STATE_SETTING_ADDRESSES -> "configuring"
      [] s = LINK_STATE_SETTING_ROUTES -> "configuring"
      [] s = LINK_STATE_CONFIGURED -> "configured"
      [] s = LINK_STATE_FAILED -> "failed"

\* variant: the lease line is written for every link with a DHCP client
link_save_client_lease(w) ==
    [w EXCEPT !.state_file = [written |-> TRUE,
                              state_line |-> link_state_to_string(w.state),
                              lease_line |-> w.dhcp_client.present]]
link_save(w) ==
    [w EXCEPT !.state_file = [written |-> TRUE,
                              state_line |-> link_state_to_string(w.state),
                              lease_line |-> w.dhcp_lease # NoLease]]

\* ------------------------------------------------ configured and failed
link_enter_configured(w) ==
    IF w.state # LINK_STATE_SETTING_ROUTES
    THEN Abort(w, "link_enter_configured: state")
    ELSE link_save([w EXCEPT !.state = LINK_STATE_CONFIGURED])

\* variant: the state file is not rewritten
link_enter_failed_nosave(w) == [w EXCEPT !.state = LINK_STATE_FAILED]
link_enter_failed(w) ==
    link_save([w EXCEPT !.state = LINK_STATE_FAILED])

\* ---------------------------------------------------------------- routes
\* the requests of one pass
StaticRouteReqs(n) == [i \in 1..Len(n.static_routes) |-> Req("route_configure", "static", n.static_routes[i])]
Ipv4llRouteReq == Req("route_configure", "ipv4ll", 0)
\* variant: the default route first
DhcpRouteReqs_swapped(l) == << Req("route_configure", "default", l), Req("route_configure", "gateway", l) >>
\* the host route to the gateway, then the default route through it
DhcpRouteReqs(l) == << Req("route_configure", "gateway", l), Req("route_configure", "default", l) >>

\* nothing to install: no static route, no lease, IPv4LL absent or unbound
NoRoutesToSet(w) ==
    /\ Len(w.network.static_routes) = 0
    /\ w.dhcp_lease = NoLease
    /\ (~w.ipv4ll.present \/ ipv4ll_is_bound(w.ipv4ll) = FALSE)

\* variants: advancing one reply early; advancing without looking at the state;
\* advancing in the wrong state
RoutesSet_early(w) == w.route_messages <= 1 /\ w.state = LINK_STATE_SETTING_ROUTES
RoutesSet_anystate(w) == w.route_messages = 0
RoutesSet_wrongstate(w) == w.route_messages = 0 /\ w.state = LINK_STATE_SETTING_ADDRESSES
\* the last route reply of the current pass has arrived
RoutesSet(w) == w.route_messages = 0 /\ w.state = LINK_STATE_SETTING_ROUTES

\* route_configure for each request, counting each one
ConfigureRoutes(w, reqs) ==
    [w EXCEPT !.rtnl = @ \o reqs, !.route_messages = @ + Len(reqs)]

link_enter_set_routes(w) ==
    IF ~w.network.present THEN Abort(w, "link_enter_set_routes: network")
    ELSE IF w.state # LINK_STATE_SETTING_ADDRESSES THEN Abort(w, "link_enter_set_routes: state")
    ELSE
    LET w1 == [w EXCEPT !.state = LINK_STATE_SETTING_ROUTES] IN
    IF NoRoutesToSet(w1) THEN link_enter_configured(w1)
    ELSE
    LET w2 == ConfigureRoutes(w1, StaticRouteReqs(w1.network))
        ll == w2.ipv4ll.present /\ w2.dhcp_lease = NoLease /\ ipv4ll_is_bound(w2.ipv4ll)
        w3 == IF ll THEN ConfigureRoutes(w2, <<Ipv4llRouteReq>>) ELSE w2
    IN  IF ll /\ route_new_dynamic_fails(w2) THEN w2
        ELSE IF w3.dhcp_lease # NoLease
        THEN IF route_new_dynamic_fails(w3) THEN w3
             ELSE ConfigureRoutes(w3, DhcpRouteReqs(w3.dhcp_lease))
        ELSE w3

route_handler(w, r) ==
    IF ~(w.route_messages > 0) THEN Abort(w, "route_handler: route_messages")
    ELSE IF w.state \notin {LINK_STATE_SETTING_ADDRESSES, LINK_STATE_SETTING_ROUTES, LINK_STATE_FAILED}
    THEN Abort(w, "route_handler: state")
    ELSE
    LET w1 == [w EXCEPT !.route_messages = @ - 1] IN
    IF w1.state = LINK_STATE_FAILED THEN w1
    ELSE IF RoutesSet(w1) THEN link_enter_configured(w1)
    ELSE w1

\* the errno is only logged
route_drop_handler(w, r) == w

\* ------------------------------------------------------------- addresses
StaticAddressReqs(n) == [i \in 1..Len(n.static_addresses) |-> Req("address_configure", "static", n.static_addresses[i])]
Ipv4llAddressReq == Req("address_configure", "ipv4ll", CACHE_INFO_INFINITY_LIFE_TIME)
DhcpAddressReq(l) == Req("address_configure", "dhcp", l)

\* the attributes of the dynamic addresses; an in_addr is its four octets in
\* network order
Bit(x, i) == (x \div (2 ^ i)) % 2
\* x | y and ~x on an octet, as the processor computes them
OctetOr(x, y) ==
    LET RECURSIVE or(_)
        or(i) == IF i = 8 THEN 0
                 ELSE (IF Bit(x, i) = 1 \/ Bit(y, i) = 1 THEN 2 ^ i ELSE 0) + or(i + 1)
    IN  or(0)
OctetNot(x) == 255 - x
InAddrOr(a, b) == [k \in 1..4 |-> OctetOr(a[k], b[k])]
InAddrNot(a) == [k \in 1..4 |-> OctetNot(a[k])]
\* htonl(0xffffffff >> prefixlen)
HostMask(prefixlen) ==
    [k \in 1..4 |->
        IF 8 * k <= prefixlen THEN 0
        ELSE IF 8 * (k - 1) >= prefixlen THEN 255
        ELSE 2 ^ (8 * k - prefixlen) - 1]
\* the prefix length of a netmask: the width less its trailing zero bits
net_netmask_to_prefixlen(mask) ==
    LET RECURSIVE ctz(_)
        ctz(i) == IF i = 32 \/ Bit(mask[4 - (i \div 8)], i % 8) = 1 THEN 0 ELSE 1 + ctz(i + 1)
    IN  32 - ctz(0)
\* variant: the broadcast address is the address with the netmask set
DhcpAddress_netmask(addr, netmask) ==
    [family |-> "AF_INET", in_addr |-> addr,
     prefixlen |-> net_netmask_to_prefixlen(netmask),
     broadcast |-> InAddrOr(addr, netmask),
     scope |-> "RT_SCOPE_UNIVERSE"]
\* the address built from a lease's address and netmask
DhcpAddress(addr, netmask) ==
    [family |-> "AF_INET", in_addr |-> addr,
     prefixlen |-> net_netmask_to_prefixlen(netmask),
     broadcast |-> InAddrOr(addr, InAddrNot(netmask)),
     scope |-> "RT_SCOPE_UNIVERSE"]
\* the address built from a claimed link-local address
Ipv4llAddress(addr) ==
    [family |-> "AF_INET", in_addr |-> addr,
     prefixlen |-> 16,
     broadcast |-> InAddrOr(addr, HostMask(16)),
     scope |-> "RT_SCOPE_LINK"]
\* the link-local route and the two routes of a lease's router
Ipv4llRoute == [family |-> "AF_INET", scope |-> "RT_SCOPE_LINK", metrics |-> 99, dst_prefixlen |-> 0]
GatewayRoute(gateway) ==
    [family |-> "AF_INET", dst_addr |-> gateway, dst_prefixlen |-> 32, scope |-> "RT_SCOPE_LINK"]
DefaultRoute(gateway) ==
    [family |-> "AF_INET", in_addr |-> gateway, dst_prefixlen |-> 0, scope |-> "RT_SCOPE_UNIVERSE"]

\* what the leases and the IPv4LL client report
LeaseAddress(l) == IF l = 1 THEN <<10, 0, 0, 5>> ELSE <<192, 168, 77, 130>>
LeaseNetmask(l) == IF l = 1 THEN <<255, 255, 255, 0>> ELSE <<255, 255, 255, 192>>
LeaseRouter(l) == IF l = 1 THEN <<10, 0, 0, 1>> ELSE <<192, 168, 77, 129>>
Ipv4llClaimed == <<169, 254, 3, 7>>
\* the address or route a request carries
Payload(req) ==
    CASE req.kind = "address_configure" /\ req.obj = "dhcp" ->
            DhcpAddress(LeaseAddress(req.arg), LeaseNetmask(req.arg))
      [] req.kind = "address_configure" /\ req.obj = "ipv4ll" -> Ipv4llAddress(Ipv4llClaimed)
      [] req.kind = "route_configure" /\ req.obj = "ipv4ll" -> Ipv4llRoute
      [] req.kind = "route_configure" /\ req.obj = "gateway" -> GatewayRoute(LeaseRouter(req.arg))
      [] req.kind = "route_configure" /\ req.obj = "default" -> DefaultRoute(LeaseRouter(req.arg))
      [] OTHER -> [family |-> "AF_INET", static |-> req.arg]

\* variant: the pass waits for address replies even with nothing to set
NoAddressesToSet_never(w) == FALSE
NoAddressesToSet(w) ==
    /\ Len(w.network.static_addresses) = 0
    /\ w.dhcp_lease = NoLease
    /\ (~w.ipv4ll.present \/ ipv4ll_is_bound(w.ipv4ll) = FALSE)

\* variant: advancing one reply early
AddressesSet_early(w) == w.addr_messages <= 1
AddressesSet(w) == w.addr_messages = 0

ConfigureAddresses(w, reqs) ==
    [w EXCEPT !.rtnl = @ \o reqs, !.addr_messages = @ + Len(reqs)]

\* variant: the link-local address is submitted whenever IPv4LL is bound
link_enter_set_addresses_both(w) ==
    IF ~w.network.present THEN Abort(w, "link_enter_set_addresses: network")
    ELSE
    LET w1 == [w EXCEPT !.state = LINK_STATE_SETTING_ADDRESSES] IN
    IF NoAddressesToSet(w1) THEN link_enter_set_routes(w1)
    ELSE
    LET w2 == ConfigureAddresses(w1, StaticAddressReqs(w1.network))
        ll == w2.ipv4ll.present /\ ipv4ll_is_bound(w2.ipv4ll)
        w3 == IF ll THEN ConfigureAddresses(w2, <<Ipv4llAddressReq>>) ELSE w2
    IN  IF ll /\ address_new_dynamic_fails(w2) THEN w2
        ELSE IF w3.dhcp_lease # NoLease
        THEN IF address_new_dynamic_fails(w3) THEN w3
             ELSE ConfigureAddresses(w3, <<DhcpAddressReq(w3.dhcp_lease)>>)
        ELSE w3
link_enter_set_addresses(w) ==
    IF ~w.network.present THEN Abort(w, "link_enter_set_addresses: network")
    ELSE
    LET w1 == [w EXCEPT !.state = LINK_STATE_SETTING_ADDRESSES] IN
    IF NoAddressesToSet(w1) THEN link_enter_set_routes(w1)
    ELSE
    LET w2 == ConfigureAddresses(w1, StaticAddressReqs(w1.network))
        ll == w2.ipv4ll.present /\ w2.dhcp_lease = NoLease /\ ipv4ll_is_bound(w2.ipv4ll)
        w3 == IF ll THEN ConfigureAddresses(w2, <<Ipv4llAddressReq>>) ELSE w2
    IN  IF ll /\ address_new_dynamic_fails(w2) THEN w2
        ELSE IF w3.dhcp_lease # NoLease
        THEN IF address_new_dynamic_fails(w3) THEN w3
             ELSE ConfigureAddresses(w3, <<DhcpAddressReq(w3.dhcp_lease)>>)
        ELSE w3

\* variant: an errno other than EEXIST fails the link
address_handler_strict(w, r) ==
    IF ~(w.addr_messages > 0) THEN Abort(w, "address_handler: addr_messages")
    ELSE
    LET w1 == [w EXCEPT !.addr_messages = @ - 1] IN
    IF w1.state = LINK_STATE_FAILED THEN w1
    ELSE IF r \notin {"OK", "EEXIST"} THEN link_enter_failed(w1)
    ELSE IF AddressesSet(w1) THEN link_enter_set_routes(w1)
    ELSE w1
\* variant: a reply delivered to a FAILED link is not counted
address_handler_failed_first(w, r) ==
    IF ~(w.addr_messages > 0) THEN Abort(w, "address_handler: addr_messages")
    ELSE IF w.state \notin {LINK_STATE_SETTING_ADDRESSES, LINK_STATE_FAILED}
    THEN Abort(w, "address_handler: state")
    ELSE IF w.state = LINK_STATE_FAILED THEN w
    ELSE
    LET w1 == [w EXCEPT !.addr_messages = @ - 1] IN
    IF AddressesSet(w1) THEN link_enter_set_routes(w1)
    ELSE w1
address_handler(w, r) ==
    IF ~(w.addr_messages > 0) THEN Abort(w, "address_handler: addr_messages")
    ELSE IF w.state \notin {LINK_STATE_SETTING_ADDRESSES, LINK_STATE_FAILED}
    THEN Abort(w, "address_handler: state")
    ELSE
    LET w1 == [w EXCEPT !.addr_messages = @ - 1] IN
    IF w1.state = LINK_STATE_FAILED THEN w1
    ELSE IF AddressesSet(w1) THEN link_enter_set_routes(w1)
    ELSE w1

address_update_handler(w, r) == w
address_drop_handler(w, r) == w

\* ------------------------------------------------- hostname, MTU, resolv.conf
\* the bus call is sent at once; its reply is only logged
set_hostname(w, name) == [w EXCEPT !.hostname = name]
link_set_mtu(w, mtu) == Submit(w, Req("set_mtu", "link", mtu))
set_mtu_handler(w, r) == w
manager_update_resolv_conf(w) == [w EXCEPT !.resolv_conf = 1]

\* ------------------------------------------------------------------ DHCP
\* variant: the host route to the gateway is left behind
DhcpLostReqs_nogateway(l) ==
    << Req("route_drop", "default", l), Req("address_drop", "dhcp", l) >>
\* variant: the leased address is left behind
DhcpLostReqs_noaddress(l) ==
    << Req("route_drop", "gateway", l), Req("route_drop", "default", l),
       Req("route_drop", "default", l) >>
\* the drops of a lost lease: host route, default route, address
DhcpLostReqs(l) ==
    << Req("route_drop", "gateway", l), Req("route_drop", "default", l),
       Req("address_drop", "dhcp", l) >>

\* variant: the MTU is read after the lease was released
RestoreMtu_after_release(w) ==
    /\ w.network.dhcp_mtu
    /\ LeaseMtu(NoLease) # 0
    /\ w.original_mtu # LeaseMtu(NoLease)
\* the MTU is put back when the lease carried one that differs from the original
RestoreMtu(w) ==
    /\ w.network.dhcp_mtu
    /\ LeaseMtu(w.dhcp_lease) # 0
    /\ w.original_mtu # LeaseMtu(w.dhcp_lease)

dhcp_lease_lost(w) ==
    IF w.dhcp_lease = NoLease THEN Abort(w, "dhcp_lease_lost: dhcp_lease")
    ELSE
    LET w1 == IF address_new_dynamic_fails(w) THEN w
              ELSE IF route_new_dynamic_fails(w)
              THEN [w EXCEPT !.rtnl = @ \o SubSeq(DhcpLostReqs(w.dhcp_lease), 3, 3)]
              ELSE [w EXCEPT !.rtnl = @ \o DhcpLostReqs(w.dhcp_lease)]
        w2 == IF RestoreMtu(w1) THEN link_set_mtu(w1, w1.original_mtu) ELSE w1
        w3 == IF w2.network.dhcp_hostname /\ LeaseHostname(w2.dhcp_lease) # "-"
              THEN set_hostname(w2, "")
              ELSE w2
    IN  [w3 EXCEPT !.dhcp_lease = NoLease]

\* sd_dhcp_client_get_lease() < 0: the client holds no lease
dhcp_lease_acquired_fails(w) == w.dhcp_client.lease = NoLease

\* variant: the lease is stored after the addresses were built
dhcp_lease_acquired_late(w) ==
    LET lease == w.dhcp_client.lease
        w2 == IF w.network.dhcp_dns /\ LeaseHasDns(lease)
              THEN manager_update_resolv_conf(w)
              ELSE w
        w3 == IF w2.network.dhcp_mtu /\ LeaseMtu(lease) # 0
              THEN link_set_mtu(w2, LeaseMtu(lease))
              ELSE w2
        w4 == IF w3.network.dhcp_hostname /\ LeaseHostname(lease) # "-"
              THEN set_hostname(w3, LeaseHostname(lease))
              ELSE w3
    IN  [link_enter_set_addresses(w4) EXCEPT !.dhcp_lease = lease]
dhcp_lease_acquired(w) ==
    LET lease == w.dhcp_client.lease
        w1 == [w EXCEPT !.dhcp_lease = lease]
        w2 == IF w1.network.dhcp_dns /\ LeaseHasDns(lease)
              THEN manager_update_resolv_conf(w1)
              ELSE w1
        w3 == IF w2.network.dhcp_mtu /\ LeaseMtu(lease) # 0
              THEN link_set_mtu(w2, LeaseMtu(lease))
              ELSE w2
        w4 == IF w3.network.dhcp_hostname /\ LeaseHostname(lease) # "-"
              THEN set_hostname(w3, LeaseHostname(lease))
              ELSE w3
    IN  link_enter_set_addresses(w4)

\* -------------------------------------------------------------- IPv4LL
\* variant: the address is always approved
ipv4ll_address_update_approve(w, deprecate) ==
    IF ipv4ll_is_bound(w.ipv4ll)
    THEN Return(Submit(w, Req("address_update", "ipv4ll", CACHE_INFO_INFINITY_LIFE_TIME)), 0)
    ELSE Return(w, 0)
\* variant: the address is always deprecated
ipv4ll_address_update_deprecate(w, deprecate) ==
    IF ipv4ll_is_bound(w.ipv4ll)
    THEN Return(Submit(w, Req("address_update", "ipv4ll", 0)), 0)
    ELSE Return(w, 0)
\* variant: the address is dropped instead of re-issued
ipv4ll_address_update_drop(w, deprecate) ==
    IF ipv4ll_is_bound(w.ipv4ll)
    THEN Return(Submit(w, Req("address_drop", "ipv4ll", 0)), 0)
    ELSE Return(w, 0)
ipv4ll_address_update(w, deprecate) ==
    IF ipv4ll_is_bound(w.ipv4ll)
    THEN IF address_new_dynamic_fails(w) THEN Return(w, -1)
         ELSE Return(Submit(w, Req("address_update", "ipv4ll",
                                   IF deprecate THEN 0 ELSE CACHE_INFO_INFINITY_LIFE_TIME)), 0)
    ELSE Return(w, 0)

\* variant: the link-scope route is left behind
Ipv4llLostReqs_noroute == << Req("address_drop", "ipv4ll", 0) >>
Ipv4llLostReqs == << Req("address_drop", "ipv4ll", 0), Req("route_drop", "ipv4ll", 0) >>

ipv4ll_address_lost(w) ==
    IF ipv4ll_is_bound(w.ipv4ll)
    THEN IF address_new_dynamic_fails(w) THEN Return(w, -1)
         ELSE IF route_new_dynamic_fails(w)
         THEN Return([w EXCEPT !.rtnl = @ \o SubSeq(Ipv4llLostReqs, 1, 1)], -1)
         ELSE Return([w EXCEPT !.rtnl = @ \o Ipv4llLostReqs], 0)
    ELSE Return(w, 0)

ipv4ll_address_claimed(w) ==
    IF ~ipv4ll_is_bound(w.ipv4ll)
    THEN link_enter_failed(w)
    ELSE link_enter_set_addresses(w)

\* variant: a negative event fails the link
ipv4ll_handler_strict(w, event) ==
    CASE event \in {IPV4LL_EVENT_STOP, IPV4LL_EVENT_CONFLICT} ->
            LET w1 == ipv4ll_address_lost(w) IN
            IF w1.ret < 0 THEN link_enter_failed(w1) ELSE w1
      [] event = IPV4LL_EVENT_BIND -> ipv4ll_address_claimed(w)
      [] OTHER -> link_enter_failed(w)
ipv4ll_handler(w, event) ==
    IF ~w.network.present THEN Abort(w, "ipv4ll_handler: network")
    ELSE
    CASE event \in {IPV4LL_EVENT_STOP, IPV4LL_EVENT_CONFLICT} ->
            LET w1 == ipv4ll_address_lost(w) IN
            IF w1.ret < 0 THEN link_enter_failed(w1) ELSE w1
      [] event = IPV4LL_EVENT_BIND -> ipv4ll_address_claimed(w)
      [] OTHER -> w

\* ----------------------------------------------------------- dhcp_handler
\* variant: nothing is refused
DhcpRefuses_never(w) == FALSE
\* EXPIRED, STOP and IP_CHANGE are refused for a critical connection
DhcpRefuses(w) == w.network.dhcp_critical

dhcp_handler(w, event) ==
    IF ~w.network.present THEN Abort(w, "dhcp_handler: network")
    ELSE IF w.state = LINK_STATE_FAILED THEN w
    ELSE
    CASE event = DHCP_EVENT_NO_LEASE -> w
      [] event \in {DHCP_EVENT_EXPIRED, DHCP_EVENT_STOP, DHCP_EVENT_IP_CHANGE} ->
            IF DhcpRefuses(w) THEN w
            ELSE
            LET w1 == IF w.dhcp_lease # NoLease THEN dhcp_lease_lost(w) ELSE w
                w2 == IF event = DHCP_EVENT_IP_CHANGE
                      THEN IF dhcp_lease_acquired_fails(w1)
                           THEN link_enter_failed(w1)
                           ELSE dhcp_lease_acquired(w1)
                      ELSE w1
            IN  IF event = DHCP_EVENT_IP_CHANGE /\ dhcp_lease_acquired_fails(w1) THEN w2
                ELSE IF event = DHCP_EVENT_EXPIRED /\ w2.network.ipv4ll
                THEN IF ~sd_ipv4ll_is_running(w2.ipv4ll)
                     THEN [w2 EXCEPT !.ipv4ll = sd_ipv4ll_start(@)]
                     ELSE IF ipv4ll_is_bound(w2.ipv4ll)
                     THEN LET w3 == ipv4ll_address_update(w2, FALSE) IN
                          IF w3.ret < 0 THEN link_enter_failed(w3) ELSE w3
                     ELSE w2
                ELSE w2
      [] event = DHCP_EVENT_IP_ACQUIRE ->
            IF dhcp_lease_acquired_fails(w) THEN link_enter_failed(w)
            ELSE
            LET w1 == dhcp_lease_acquired(w) IN
            IF w1.ipv4ll.present
            THEN IF ipv4ll_is_bound(w1.ipv4ll)
                 THEN LET w2 == ipv4ll_address_update(w1, TRUE) IN
                      IF w2.ret < 0 THEN link_enter_failed(w2) ELSE w2
                 ELSE [w1 EXCEPT !.ipv4ll = sd_ipv4ll_stop(@)]
            ELSE w1
      [] OTHER -> w

\* ------------------------------------------------------ link_update_flags
\* variant: the IPv4LL client is left alone
link_acquire_conf_dhcp_only(w) ==
    IF w.network.dhcp THEN [w EXCEPT !.dhcp_client = sd_dhcp_client_start(@)] ELSE w
link_acquire_conf(w) ==
    LET w1 == IF w.network.ipv4ll THEN [w EXCEPT !.ipv4ll = sd_ipv4ll_start(@)] ELSE w
    IN  IF w1.network.dhcp THEN [w1 EXCEPT !.dhcp_client = sd_dhcp_client_start(@)] ELSE w1

\* variant: leaving the dormant state is not looked at
carrier_gained_added_only(old, new) ==
    LET flags_added == new \ old
    IN  IFF_LOWER_UP \in flags_added /\ IFF_DORMANT \notin new
carrier_gained(old, new) ==
    LET flags_added == new \ old
        flags_removed == old \ new
    IN  \/ (IFF_LOWER_UP \in flags_added /\ IFF_DORMANT \notin new)
        \/ (IFF_DORMANT \in flags_removed /\ IFF_LOWER_UP \in new)

carrier_lost(old, new) ==
    LET flags_added == new \ old
        flags_removed == old \ new
    IN  /\ (IFF_LOWER_UP \in old /\ IFF_DORMANT \notin old)
        /\ (IFF_LOWER_UP \in flags_removed \/ IFF_DORMANT \in flags_added)

\* variant: on carrier loss the lease is given up at once
link_update_flags_withdraw(w, new) ==
    IF w.state = LINK_STATE_FAILED THEN w
    ELSE IF w.flags = new THEN w
    ELSE
    LET gained == carrier_gained(w.flags, new)
        lost == carrier_lost(w.flags, new)
        w1 == [w EXCEPT !.flags = new]
    IN  IF ~w1.network.present THEN w1
        ELSE IF gained
        THEN IF w1.network.dhcp \/ w1.network.ipv4ll THEN link_acquire_conf(w1) ELSE w1
        ELSE IF lost
        THEN LET w2 == IF w1.network.dhcp
                       THEN [w1 EXCEPT !.dhcp_client = sd_dhcp_client_stop(@)]
                       ELSE w1
                 w3 == IF w2.network.ipv4ll
                       THEN [w2 EXCEPT !.ipv4ll = sd_ipv4ll_stop(@)]
                       ELSE w2
             IN  IF w3.dhcp_lease # NoLease THEN dhcp_lease_lost(w3) ELSE w3
        ELSE w1
link_update_flags(w, new) ==
    IF w.state = LINK_STATE_FAILED THEN w
    ELSE IF w.flags = new THEN w
    ELSE
    LET gained == carrier_gained(w.flags, new)
        lost == carrier_lost(w.flags, new)
        w1 == [w EXCEPT !.flags = new]
    IN  IF ~w1.network.present THEN w1
        ELSE IF gained
        THEN IF w1.network.dhcp \/ w1.network.ipv4ll THEN link_acquire_conf(w1) ELSE w1
        ELSE IF lost
        THEN LET w2 == IF w1.network.dhcp
                       THEN [w1 EXCEPT !.dhcp_client = sd_dhcp_client_stop(@)]
                       ELSE w1
             IN  IF w2.network.ipv4ll
                 THEN [w2 EXCEPT !.ipv4ll = sd_ipv4ll_stop(@)]
                 ELSE w2
        ELSE w1

\* ----------------------------------------------------------------- link up
\* variant: an error reply fails the link
link_up_handler_strict(w, r) ==
    IF w.state = LINK_STATE_FAILED THEN w
    ELSE IF r = "OK" THEN link_update_flags(w, w.flags \cup {IFF_UP})
    ELSE link_enter_failed(w)
link_up_handler(w, r) ==
    IF w.state = LINK_STATE_FAILED THEN w
    ELSE IF r = "OK" THEN link_update_flags(w, w.flags \cup {IFF_UP})
    ELSE w

link_up(w) ==
    IF w.fault = "link_up" THEN Return(w, -1)
    ELSE Return(Submit(w, Req("link_up", "link", 0)), 0)

\* ------------------------------------------------------------- enslaving
\* variant: the link is brought up whatever its flags
link_enslaved_always_up(w) ==
    IF w.state # LINK_STATE_ENSLAVING THEN Abort(w, "link_enslaved: state")
    ELSE IF ~w.network.present THEN Abort(w, "link_enslaved: network")
    ELSE
    LET w1 == link_up(w) IN
    IF w1.ret < 0 THEN link_enter_failed(w1)
    ELSE IF ~w1.network.dhcp /\ ~w1.network.ipv4ll
    THEN link_enter_set_addresses(w1)
    ELSE w1
\* variant: the addresses are set without waiting for DHCP or IPv4LL
link_enslaved_eager(w) ==
    IF w.state # LINK_STATE_ENSLAVING THEN Abort(w, "link_enslaved: state")
    ELSE IF ~w.network.present THEN Abort(w, "link_enslaved: network")
    ELSE
    LET w1 == IF IFF_UP \notin w.flags THEN link_up(w) ELSE Return(w, 0) IN
    IF w1.ret < 0 THEN link_enter_failed(w1)
    ELSE link_enter_set_addresses(w1)
link_enslaved(w) ==
    IF w.state # LINK_STATE_ENSLAVING THEN Abort(w, "link_enslaved: state")
    ELSE IF ~w.network.present THEN Abort(w, "link_enslaved: network")
    ELSE
    LET w1 == IF IFF_UP \notin w.flags THEN link_up(w) ELSE Return(w, 0) IN
    IF w1.ret < 0 THEN link_enter_failed(w1)
    ELSE IF ~w1.network.dhcp /\ ~w1.network.ipv4ll
    THEN link_enter_set_addresses(w1)
    ELSE w1

\* every enslave reply has arrived
Enslaved(w) == w.enslaving = 0

enslave_handler(w, r) ==
    IF w.state \notin {LINK_STATE_ENSLAVING, LINK_STATE_FAILED}
    THEN Abort(w, "enslave_handler: state")
    ELSE IF ~w.network.present THEN Abort(w, "enslave_handler: network")
    ELSE
    LET w1 == [w EXCEPT !.enslaving = @ - 1] IN
    IF w1.state = LINK_STATE_FAILED THEN w1
    ELSE IF r # "OK" THEN link_enter_failed(w1)
    ELSE IF Enslaved(w1) THEN link_enslaved(w1)
    ELSE w1

\* netdev_enslave for the bridge, the bond, every vlan and every macvlan
EnslaveReqs(n) == [i \in 1..Len(n.netdevs) |-> Req("enslave", n.netdevs[i], 0)]

link_enter_enslave(w) ==
    IF ~w.network.present THEN Abort(w, "link_enter_enslave: network")
    ELSE IF w.state # LINK_STATE_INITIALIZING THEN Abort(w, "link_enter_enslave: state")
    ELSE
    LET w1 == link_save([w EXCEPT !.state = LINK_STATE_ENSLAVING]) IN
    IF Len(w1.network.netdevs) = 0 THEN link_enslaved(w1)
    ELSE [w1 EXCEPT !.rtnl = @ \o EnslaveReqs(w1.network),
                    !.enslaving = @ + Len(w1.network.netdevs)]

\* ------------------------------------------- link_configure, link_initialized
link_configure(w) ==
    IF w.state # LINK_STATE_INITIALIZING THEN Abort(w, "link_configure: state")
    ELSE
    LET w1 == IF w.network.ipv4ll
              THEN [w EXCEPT !.ipv4ll = [NoIpv4ll EXCEPT !.present = TRUE]]
              ELSE w
        w2 == IF w1.network.dhcp
              THEN [w1 EXCEPT !.dhcp_client = [NoClient EXCEPT !.present = TRUE]]
              ELSE w1
    IN  link_enter_enslave(w2)

\* variant: the state of the link is not looked at
link_initialized_again(w, match) ==
    IF ~match.present THEN w
    ELSE
    LET w1 == link_configure([w EXCEPT !.network = match]) IN
    IF w1.aborted # NoAbort THEN w1
    ELSE link_update_flags([w1 EXCEPT !.flags = {}], w1.flags)
\* match: the profile network_get() found, NullNetwork for -ENOENT
link_initialized(w, match) ==
    IF w.state # LINK_STATE_INITIALIZING THEN w
    ELSE IF ~match.present THEN w
    ELSE
    LET w1 == link_configure([w EXCEPT !.network = match]) IN
    IF w1.aborted # NoAbort THEN w1
    ELSE link_update_flags([w1 EXCEPT !.flags = {}], w1.flags)

\* --------------------------------------------------------------- link_update
\* mtu: the IFLA_MTU of the message, 0 when the message carries none
\* variant: every IFLA_MTU is stored
link_update_overwrite(w, mtu, new) ==
    IF w.state = LINK_STATE_FAILED THEN w
    ELSE
    LET w1 == IF mtu # 0
              THEN [w EXCEPT !.original_mtu = mtu]
              ELSE w
    IN  link_update_flags(w1, new)
link_update(w, mtu, new) ==
    IF w.state = LINK_STATE_FAILED THEN w
    ELSE
    LET w1 == IF w.original_mtu = 0 /\ mtu # 0
              THEN [w EXCEPT !.original_mtu = mtu]
              ELSE w
    IN  link_update_flags(w1, new)

\* ------------------------------------------------------------- the kernel
Installed(tbl, req) ==
    IF req.obj = "ipv4ll"
    THEN \E a \in tbl : a.obj = "ipv4ll"
    ELSE [obj |-> req.obj, arg |-> req.arg] \in tbl

Without(tbl, req) ==
    IF req.obj = "ipv4ll"
    THEN {a \in tbl : a.obj # "ipv4ll"}
    ELSE tbl \ {[obj |-> req.obj, arg |-> req.arg]}

\* the errnos the kernel can answer a request with
Errnos(req) ==
    CASE req.kind = "address_configure" -> IF Installed(kaddrs, req) THEN {"EEXIST"} ELSE {"OK", "EINVAL"}
      [] req.kind = "route_configure" -> IF Installed(kroutes, req) THEN {"EEXIST"} ELSE {"OK", "ENETUNREACH"}
      [] req.kind = "address_drop" -> IF Installed(kaddrs, req) THEN {"OK"} ELSE {"ENOENT"}
      [] req.kind = "route_drop" -> IF Installed(kroutes, req) THEN {"OK"} ELSE {"ENOENT"}
      [] req.kind = "address_update" -> IF Installed(kaddrs, req) THEN {"OK"} ELSE {"OK", "ENOENT"}
      [] req.kind = "enslave" -> {"OK", "EBUSY"}
      [] req.kind = "link_up" -> {"OK", "EPERM"}
      [] req.kind = "set_mtu" -> {"OK", "EINVAL"}

\* the address table after the request was answered with r
KernelAddrs(req, r) ==
    IF r # "OK" THEN kaddrs
    ELSE CASE req.kind = "address_configure" -> kaddrs \cup {[obj |-> req.obj, arg |-> req.arg]}
           [] req.kind = "address_update" -> Without(kaddrs, req) \cup {[obj |-> req.obj, arg |-> req.arg]}
           [] req.kind = "address_drop" -> Without(kaddrs, req)
           [] OTHER -> kaddrs

KernelRoutes(req, r) ==
    IF r # "OK" THEN kroutes
    ELSE CASE req.kind = "route_configure" -> kroutes \cup {[obj |-> req.obj, arg |-> req.arg]}
           [] req.kind = "route_drop" -> Without(kroutes, req)
           [] OTHER -> kroutes

\* the callback the request was submitted with
Callback(w, req, r) ==
    CASE req.kind = "address_configure" -> address_handler(w, r)
      [] req.kind = "route_configure" -> route_handler(w, r)
      [] req.kind = "address_drop" -> address_drop_handler(w, r)
      [] req.kind = "route_drop" -> route_drop_handler(w, r)
      [] req.kind = "address_update" -> address_update_handler(w, r)
      [] req.kind = "enslave" -> enslave_handler(w, r)
      [] req.kind = "link_up" -> link_up_handler(w, r)
      [] req.kind = "set_mtu" -> set_mtu_handler(w, r)

\* -------------------------------------------------------------- the registry
MaxIfindex == 2      \* interfaces the kernel announces
MaxLinks == 3        \* Link objects the allocator hands out
NoLink == 0          \* a NULL Link pointer
FirstIfindex == 1    \* the interface of the Link the single-link runs follow
FirstLink == 1       \* and that Link
RTM_NEWLINK == "RTM_NEWLINK"
RTM_DELLINK == "RTM_DELLINK"
\* the local calls of link_new that can fail for lack of memory
RegistryFaults == {"new0", "strdup", "asprintf", "hashmap_put"}
\* what udev knows of the device: the daemon runs in a container, the device is
\* unknown, known but not yet initialized, or initialized
UdevAnswers == {"container", "no_device", "not_initialized", "initialized"}

\* a hashmap is a function from the keys it holds to their values
hashmap_get(h, key) == IF key \in DOMAIN h THEN h[key] ELSE NoLink
hashmap_remove(h, key) == [k \in DOMAIN h \ {key} |-> h[k]]
\* a key the map holds with another value is refused, not replaced
hashmap_put(h, key, value, f) ==
    IF f = "hashmap_put" THEN [ret |-> "ENOMEM", h |-> h]
    ELSE IF key \in DOMAIN h
    THEN [ret |-> IF h[key] = value THEN "OK" ELSE "EEXIST", h |-> h]
    ELSE [ret |-> "OK", h |-> [k \in DOMAIN h \cup {key} |-> IF k = key THEN value ELSE h[k]]]

\* the manager a registry function runs in: its hashmap, the Links allocated, the
\* Link returned in *ret with its fields, and the value returned
Manager ==
    [links |-> links, allocated |-> allocated, link |-> NoLink, w |-> World, ret |-> "OK"]

\* the Link new0() returns: all fields zero
new0_Link ==
    [World EXCEPT !.state = LINK_STATE_INITIALIZING, !.flags = {}, !.network = NullNetwork,
                  !.enslaving = 0, !.addr_messages = 0, !.route_messages = 0,
                  !.dhcp_client = NoClient, !.dhcp_lease = NoLease, !.ipv4ll = NoIpv4ll,
                  !.original_mtu = 0, !.state_file = NoFile, !.rtnl = <<>>]

\* variant: the Link stays in the hashmap
link_free_keeps_entry(m, link) ==
    IF link = NoLink THEN m
    ELSE [m EXCEPT !.allocated = [l \in DOMAIN @ \ {link} |-> @[l]]]
link_free(m, link) ==
    IF link = NoLink THEN m
    ELSE [m EXCEPT !.links = hashmap_remove(@, m.allocated[link]),
                   !.allocated = [l \in DOMAIN @ \ {link} |-> @[l]]]

\* ptr: the address new0() returns
link_new(m, type, ifindex, ptr, f) ==
    IF type # RTM_NEWLINK THEN [m EXCEPT !.ret = "EINVAL"]
    ELSE IF ifindex <= 0 THEN [m EXCEPT !.ret = "EINVAL"]
    ELSE IF f = "new0" THEN [m EXCEPT !.ret = "ENOMEM"]
    ELSE
    LET m1 == [m EXCEPT !.allocated = [l \in DOMAIN @ \cup {ptr} |->
                                          IF l = ptr THEN ifindex ELSE @[l]]]
    IN  IF f \in {"strdup", "asprintf"}
        THEN [link_free(m1, ptr) EXCEPT !.ret = "ENOMEM"]
        ELSE LET put == hashmap_put(m1.links, ifindex, ptr, f) IN
             IF put.ret # "OK"
             THEN [link_free(m1, ptr) EXCEPT !.ret = put.ret]
             ELSE [m1 EXCEPT !.links = put.h, !.link = ptr, !.w = new0_Link, !.ret = "OK"]

link_get(m, ifindex) ==
    IF ifindex = 0 THEN [m EXCEPT !.w = Abort(@, "link_get: ifindex")]
    ELSE LET link == hashmap_get(m.links, ifindex) IN
         IF link = NoLink THEN [m EXCEPT !.ret = "ENODEV"]
         ELSE [m EXCEPT !.link = link, !.ret = "OK"]

\* udev: what udev knows of the device; match: the profile network_get() finds
link_add(m, type, ifindex, ptr, f, udev, match) ==
    LET m1 == link_new(m, type, ifindex, ptr, f) IN
    IF m1.ret # "OK" THEN m1
    ELSE IF udev = "no_device" THEN [m1 EXCEPT !.ret = "errno"]
    ELSE IF udev = "not_initialized" THEN m1
    ELSE LET w1 == link_initialized(m1.w, match) IN
         [m1 EXCEPT !.w = w1, !.ret = IF w1.ret < 0 THEN "errno" ELSE "OK"]

\* --------------------------------------------------------------- actions
\* the carrier round trip a run is in: "lost" after the carrier went away under a
\* CONFIGURED link, "gained" once it is back; addrs, lease and bound are what was
\* installed and held when it went away
NoTrip == [phase |-> "none", addrs |-> {}, lease |-> FALSE, bound |-> FALSE]
\* the handler run by a step, its argument, the answer it was given, the local
\* call that failed while it ran, and the state before
Ran(h, a, r, f) == [h |-> h, a |-> a, r |-> r, f |-> f, from |-> state, trip |-> last.trip]
Alive == aborted = NoAbort
\* the queue has room for the requests of one more event
Ready == Alive /\ Len(rtnl) < MaxQueue
\* an external event can be delivered
Open == Ready /\ events < MaxEvents

Init ==
    /\ state = LINK_STATE_INITIALIZING
    /\ flags = {}
    /\ network = NullNetwork
    /\ enslaving = 0
    /\ addr_messages = 0
    /\ route_messages = 0
    /\ dhcp_client = NoClient
    /\ dhcp_lease = NoLease
    /\ ipv4ll = NoIpv4ll
    /\ original_mtu = 0
    /\ state_file = NoFile
    /\ rtnl = <<>>
    /\ hostname = "unset"
    /\ resolv_conf = 0
    /\ aborted = NoAbort
    /\ kaddrs = {}
    /\ kroutes = {}
    /\ last = [h |-> "link_new", a |-> "", r |-> "", f |-> NoFault,
               from |-> LINK_STATE_INITIALIZING, trip |-> NoTrip]
    /\ events = 0
    /\ links = (FirstIfindex :> FirstLink)
    /\ allocated = (FirstLink :> FirstIfindex)

\* the kernel answers the oldest request; its callback runs (f: the local call
\* that fails during the run)
CompleteIn(f) ==
    /\ Alive
    /\ rtnl # <<>>
    /\ LET req == Head(rtnl) IN
       \E r \in Errnos(req) :
          /\ kaddrs' = KernelAddrs(req, r)
          /\ kroutes' = KernelRoutes(req, r)
          /\ Becomes(Callback([World EXCEPT !.rtnl = Tail(rtnl), !.fault = f], req, r))
          /\ last' = Ran("complete", req.kind, r, f)

Complete ==
    /\ CompleteIn(NoFault)
    /\ UNCHANGED events

\* the device enumerator reports the device ready
\* (a link that has left INITIALIZING returns at once)
LinkInitializedIn(f, matches) ==
    /\ Alive
    /\ state = LINK_STATE_INITIALIZING
    /\ \E match \in matches :
          Becomes(link_initialized([World EXCEPT !.fault = f], match))
    /\ last' = Ran("link_initialized", "", "", f)
    /\ UNCHANGED <<kaddrs, kroutes>>

LinkInitialized ==
    /\ LinkInitializedIn(NoFault, Profiles \cup {NullNetwork})
    /\ UNCHANGED events

\* an RTM_NEWLINK for the interface
LinkUpdate ==
    /\ Open
    /\ \E mtu \in MtuValues \cup {0}, new \in FlagWords :
          Becomes(link_update(World, mtu, new))
    /\ last' = Ran("link_update", "", "", NoFault)
    /\ events' = events + 1
    /\ UNCHANGED <<kaddrs, kroutes>>

\* the DHCP client calls back
DhcpEventIn(f) ==
    /\ Ready
    /\ dhcp_client.present
    /\ \E event \in {DHCP_EVENT_NO_LEASE, DHCP_EVENT_EXPIRED, DHCP_EVENT_STOP,
                     DHCP_EVENT_IP_CHANGE, DHCP_EVENT_IP_ACQUIRE, EVENT_ERROR},
          l \in Leases :
          /\ CASE event = DHCP_EVENT_IP_ACQUIRE -> dhcp_client.running /\ dhcp_client.lease = NoLease
               [] event = DHCP_EVENT_IP_CHANGE -> dhcp_client.running /\ dhcp_client.lease \notin {NoLease, l}
               [] event = DHCP_EVENT_EXPIRED -> dhcp_client.running /\ dhcp_client.lease # NoLease /\ l = 1
               [] event = DHCP_EVENT_STOP -> dhcp_client.stop_pending /\ l = 1
               [] OTHER -> dhcp_client.running /\ l = 1
          /\ LET before == IF event \in {DHCP_EVENT_IP_ACQUIRE, DHCP_EVENT_IP_CHANGE}
                           THEN [World EXCEPT !.dhcp_client.lease = l]
                           ELSE World
                 w == dhcp_handler([before EXCEPT !.fault = f], event)
             IN  Becomes(CASE event = DHCP_EVENT_EXPIRED -> [w EXCEPT !.dhcp_client.lease = NoLease]
                           [] event = DHCP_EVENT_STOP -> [w EXCEPT !.dhcp_client.lease = NoLease,
                                                                   !.dhcp_client.stop_pending = FALSE]
                           [] OTHER -> w)
          /\ last' = Ran("dhcp_handler", event, "", f)
    /\ UNCHANGED <<kaddrs, kroutes>>

DhcpEvent ==
    /\ events < MaxEvents
    /\ DhcpEventIn(NoFault)
    /\ events' = events + 1

\* the IPv4LL client calls back
Ipv4llEventIn(f) ==
    /\ Ready
    /\ ipv4ll.present
    /\ \E event \in {IPV4LL_EVENT_BIND, IPV4LL_EVENT_CONFLICT, IPV4LL_EVENT_STOP, EVENT_ERROR} :
          /\ CASE event = IPV4LL_EVENT_BIND -> ipv4ll.running /\ ~ipv4ll.bound
               [] event = IPV4LL_EVENT_CONFLICT -> ipv4ll.running /\ ipv4ll.bound
               [] event = IPV4LL_EVENT_STOP -> ipv4ll.stop_pending
               [] OTHER -> ipv4ll.running
          /\ LET before == IF event = IPV4LL_EVENT_BIND
                           THEN [World EXCEPT !.ipv4ll.bound = TRUE]
                           ELSE World
                 w == ipv4ll_handler([before EXCEPT !.fault = f], event)
             IN  Becomes(CASE event = IPV4LL_EVENT_CONFLICT -> [w EXCEPT !.ipv4ll.bound = FALSE]
                           [] event = IPV4LL_EVENT_STOP -> [w EXCEPT !.ipv4ll.bound = FALSE,
                                                                     !.ipv4ll.stop_pending = FALSE]
                           [] OTHER -> w)
          /\ last' = Ran("ipv4ll_handler", event, "", f)
    /\ UNCHANGED <<kaddrs, kroutes>>

Ipv4llEvent ==
    /\ events < MaxEvents
    /\ Ipv4llEventIn(NoFault)
    /\ events' = events + 1

Next ==
    \/ Complete
    \/ LinkInitialized
    \/ LinkUpdate
    \/ DhcpEvent
    \/ Ipv4llEvent

Spec == Init /\ [][Next]_vars

\* the runs in which every submitted request is eventually answered, with an
\* environment that delivers one event less
InitLive ==
    /\ state = LINK_STATE_INITIALIZING
    /\ flags = {}
    /\ network = NullNetwork
    /\ enslaving = 0
    /\ addr_messages = 0
    /\ route_messages = 0
    /\ dhcp_client = NoClient
    /\ dhcp_lease = NoLease
    /\ ipv4ll = NoIpv4ll
    /\ original_mtu = 0
    /\ state_file = NoFile
    /\ rtnl = <<>>
    /\ hostname = "unset"
    /\ resolv_conf = 0
    /\ aborted = NoAbort
    /\ kaddrs = {}
    /\ kroutes = {}
    /\ last = [h |-> "link_new", a |-> "", r |-> "", f |-> NoFault,
               from |-> LINK_STATE_INITIALIZING, trip |-> NoTrip]
    /\ events = 1
    /\ links = (FirstIfindex :> FirstLink)
    /\ allocated = (FirstLink :> FirstIfindex)

SpecLive == InitLive /\ [][Next]_vars /\ WF_vars(Complete)

\* the runs of a link whose profile enables both DHCP and IPv4LL and is not
\* critical, every submitted request eventually answered
DynamicProfiles == {p \in Profiles : p.dhcp /\ p.ipv4ll /\ ~p.dhcp_critical}

LinkInitializedDynamic ==
    /\ LinkInitializedIn(NoFault, DynamicProfiles)
    /\ UNCHANGED events

NextDynamic ==
    \/ Complete
    \/ LinkInitializedDynamic
    \/ LinkUpdate
    \/ DhcpEvent
    \/ Ipv4llEvent

SpecDynamic == Init /\ [][NextDynamic]_vars /\ WF_vars(Complete)

\* the runs in which a local call can fail: a handler runs with the submission of
\* the link-up SETLINK rejected, or with no memory for an address or a route; each
\* failure counts as an event, and the environment delivers one event less
CompleteFaulty ==
    /\ events < MaxEvents
    /\ \E f \in Faults : CompleteIn(f)
    /\ events' = events + 1

LinkInitializedFaulty ==
    /\ events < MaxEvents
    /\ \E f \in Faults : LinkInitializedIn(f, Profiles)
    /\ events' = events + 1

DhcpEventFaulty ==
    /\ events < MaxEvents
    /\ \E f \in Faults : DhcpEventIn(f)
    /\ events' = events + 1

Ipv4llEventFaulty ==
    /\ events < MaxEvents
    /\ \E f \in Faults : Ipv4llEventIn(f)
    /\ events' = events + 1

NextFaulty ==
    \/ Complete
    \/ LinkInitialized
    \/ LinkUpdate
    \/ DhcpEvent
    \/ Ipv4llEvent
    \/ CompleteFaulty
    \/ LinkInitializedFaulty
    \/ DhcpEventFaulty
    \/ Ipv4llEventFaulty

SpecFaulty == InitLive /\ [][NextFaulty]_vars

\* the runs in which the MTU of the interface changes: an RTM_NEWLINK carries the
\* first MTU, the changed MTU, the MTU a lease will carry, or none (the environment
\* delivers one event less)
LinkUpdateMtu ==
    /\ Open
    /\ \E mtu \in MtuValues \cup {JumboMtu, LeaseMtu(1), 0}, new \in FlagWords :
          /\ Becomes(link_update(World, mtu, new))
          /\ last' = Ran("link_update", ToString(mtu), "", NoFault)
    /\ events' = events + 1
    /\ UNCHANGED <<kaddrs, kroutes>>

NextMtu ==
    \/ Complete
    \/ LinkInitialized
    \/ LinkUpdateMtu
    \/ DhcpEvent
    \/ Ipv4llEvent

SpecMtu == InitLive /\ [][NextMtu]_vars

\* the runs in which an RTM_NEWLINK carries any combination of IFF_UP,
\* IFF_LOWER_UP and IFF_DORMANT (the environment delivers one event less); the
\* step records what the flag word of the link said about the carrier before
OldCarrier ==
    IF IFF_DORMANT \in flags THEN "dormant"
    ELSE IF IFF_LOWER_UP \in flags THEN "carrier"
    ELSE "down"

LinkUpdateFlags ==
    /\ Open
    /\ \E mtu \in MtuValues \cup {0}, new \in SUBSET AllFlags :
          Becomes(link_update(World, mtu, new))
    /\ last' = Ran("link_update", OldCarrier, "", NoFault)
    /\ events' = events + 1
    /\ UNCHANGED <<kaddrs, kroutes>>

NextFlags ==
    \/ Complete
    \/ LinkInitialized
    \/ LinkUpdateFlags
    \/ DhcpEvent
    \/ Ipv4llEvent

SpecFlags == InitLive /\ [][NextFlags]_vars

\* the runs of a carrier round trip: a profile with DHCP or IPv4LL, a kernel that
\* refuses nothing it can do, RTM_NEWLINK messages that only move IFF_LOWER_UP,
\* clients that acquire and report their stop (a restarted client reports the stop
\* before it acquires again), every request eventually answered
MaxTripEvents == MaxEvents + 5
TripProfiles == {p \in Profiles : p.dhcp \/ p.ipv4ll}
TripFlagWords == {{IFF_UP}, {IFF_UP, IFF_LOWER_UP}}

CompleteTrip ==
    /\ CompleteIn(NoFault)
    /\ last'.r \in {"OK", "EEXIST", "ENOENT"}
    /\ UNCHANGED events

LinkInitializedTrip ==
    /\ LinkInitializedIn(NoFault, TripProfiles)
    /\ UNCHANGED events

\* the round trip after an RTM_NEWLINK carrying the flag word new
TripAfter(new) ==
    IF state # LINK_STATE_FAILED /\ network.present /\ carrier_lost(flags, new)
    THEN IF state = LINK_STATE_CONFIGURED /\ rtnl = <<>>
         THEN [phase |-> "lost", addrs |-> kaddrs, lease |-> dhcp_lease # NoLease,
               bound |-> ipv4ll_is_bound(ipv4ll)]
         ELSE NoTrip
    ELSE IF state # LINK_STATE_FAILED /\ carrier_gained(flags, new) /\ last.trip.phase = "lost"
    THEN [last.trip EXCEPT !.phase = "gained"]
    ELSE last.trip

LinkUpdateTrip ==
    /\ Ready
    /\ events < MaxTripEvents
    /\ \E mtu \in MtuValues, new \in TripFlagWords :
          /\ Becomes(link_update(World, mtu, new))
          /\ last' = [Ran("link_update", OldCarrier, "", NoFault) EXCEPT !.trip = TripAfter(new)]
    /\ events' = events + 1
    /\ UNCHANGED <<kaddrs, kroutes>>

DhcpEventTrip ==
    /\ events < MaxTripEvents
    /\ DhcpEventIn(NoFault)
    /\ \/ last'.a = DHCP_EVENT_STOP
       \/ last'.a = DHCP_EVENT_IP_ACQUIRE /\ ~dhcp_client.stop_pending
    /\ events' = events + 1

Ipv4llEventTrip ==
    /\ events < MaxTripEvents
    /\ Ipv4llEventIn(NoFault)
    /\ \/ last'.a = IPV4LL_EVENT_STOP
       \/ last'.a = IPV4LL_EVENT_BIND /\ ~ipv4ll.stop_pending
    /\ events' = events + 1

NextTrip ==
    \/ CompleteTrip
    \/ LinkInitializedTrip
    \/ LinkUpdateTrip
    \/ DhcpEventTrip
    \/ Ipv4llEventTrip

SpecTrip == Init /\ [][NextTrip]_vars /\ WF_vars(CompleteTrip)

\* the runs of the registry: interfaces appear and Links are added, looked up and
\* freed; the Link variables hold the fields of the Link link_new returned last
\* the manager adds a Link on the first RTM_NEWLINK of an ifindex: for a message
\* whose ifindex the registry does not hold
FirstMessage(ifindex) == hashmap_get(links, ifindex) = NoLink

\* the profiles network_get() finds for the interfaces of these runs
RegistryProfiles ==
    { NullNetwork,
      Profile(FALSE, FALSE, FALSE, FALSE, FALSE, FALSE, <<>>, <<>>, <<>>),
      Profile(FALSE, FALSE, FALSE, FALSE, FALSE, FALSE, <<1>>, <<1>>, <<>>),
      Profile(TRUE,  TRUE,  FALSE, FALSE, FALSE, FALSE, <<>>, <<>>, <<"bridge">>) }

LinkAdd ==
    /\ Alive
    /\ \E type \in {RTM_NEWLINK, RTM_DELLINK}, ifindex \in 0..MaxIfindex,
          ptr \in (1..MaxLinks) \ DOMAIN allocated,
          f \in RegistryFaults \cup {NoFault}, udev \in UdevAnswers,
          match \in RegistryProfiles :
          /\ FirstMessage(ifindex)
          \* an input the call does not read has one value
          /\ (type # RTM_NEWLINK \/ ifindex = 0) => f = NoFault
          /\ (type # RTM_NEWLINK \/ ifindex = 0 \/ f # NoFault) => udev = "container"
          /\ (type # RTM_NEWLINK \/ ifindex = 0 \/ f # NoFault
                \/ udev \in {"no_device", "not_initialized"}) => match = NullNetwork
          /\ LET m == link_add(Manager, type, ifindex, ptr, f, udev, match) IN
             /\ links' = m.links
             /\ allocated' = m.allocated
             /\ LinkBecomes(m.w)
             /\ kaddrs' = IF m.link = NoLink THEN kaddrs ELSE {}
             /\ kroutes' = IF m.link = NoLink THEN kroutes ELSE {}
             /\ last' = [Ran("link_add", ToString(ifindex), m.ret, f) EXCEPT !.trip = NoTrip]
    /\ UNCHANGED events

LinkFree ==
    /\ Alive
    /\ \E link \in DOMAIN allocated :
          LET m == link_free(Manager, link) IN
          /\ links' = m.links
          /\ allocated' = m.allocated
          /\ last' = [Ran("link_free", ToString(link), ToString(allocated[link]), NoFault)
                        EXCEPT !.trip = NoTrip]
    /\ UNCHANGED <<linkvars, kaddrs, kroutes, events>>

LinkGet ==
    /\ Alive
    /\ \E ifindex \in 1..MaxIfindex :
          LET m == link_get(Manager, ifindex) IN
          last' = [Ran("link_get", ToString(ifindex), m.ret, NoFault) EXCEPT !.trip = NoTrip]
    /\ UNCHANGED <<linkvars, kaddrs, kroutes, events, links, allocated>>

NextRegistry ==
    \/ LinkAdd
    \/ LinkFree
    \/ LinkGet

SpecRegistry == Init /\ [][NextRegistry]_vars

\* link_add for an ifindex the registry holds: link_new has no precondition on the
\* registry and refuses the key at hashmap_put
LinkAddAgain ==
    /\ Alive
    /\ \E type \in {RTM_NEWLINK, RTM_DELLINK}, ifindex \in DOMAIN links,
          ptr \in (1..MaxLinks) \ DOMAIN allocated,
          f \in RegistryFaults \cup {NoFault} :
          \* an input the call does not read has one value
          /\ type # RTM_NEWLINK => f = NoFault
          /\ LET m == link_add(Manager, type, ifindex, ptr, f, "container", NullNetwork) IN
             /\ links' = m.links
             /\ allocated' = m.allocated
             /\ LinkBecomes(m.w)
             /\ kaddrs' = IF m.link = NoLink THEN kaddrs ELSE {}
             /\ kroutes' = IF m.link = NoLink THEN kroutes ELSE {}
             /\ last' = [Ran("link_add", ToString(ifindex), m.ret, f) EXCEPT !.trip = NoTrip]
    /\ UNCHANGED events

\* link_add for the first message of an ifindex, outside a container, before udev
\* has initialized the device: the Link is registered and left in INITIALIZING
LinkAddDeferred ==
    /\ Alive
    /\ \E type \in {RTM_NEWLINK, RTM_DELLINK}, ifindex \in 0..MaxIfindex,
          ptr \in (1..MaxLinks) \ DOMAIN allocated,
          f \in RegistryFaults \cup {NoFault}, udev \in {"no_device", "not_initialized"} :
          /\ FirstMessage(ifindex)
          \* an input the call does not read has one value
          /\ (type # RTM_NEWLINK \/ ifindex = 0) => f = NoFault
          /\ (type # RTM_NEWLINK \/ ifindex = 0 \/ f # NoFault) => udev = "no_device"
          /\ LET m == link_add(Manager, type, ifindex, ptr, f, udev, NullNetwork) IN
             /\ links' = m.links
             /\ allocated' = m.allocated
             /\ LinkBecomes(m.w)
             /\ kaddrs' = IF m.link = NoLink THEN kaddrs ELSE {}
             /\ kroutes' = IF m.link = NoLink THEN kroutes ELSE {}
             /\ last' = [Ran("link_add", ToString(ifindex), m.ret, f) EXCEPT !.trip = NoTrip]
    /\ UNCHANGED events

NextReadd ==
    \/ LinkAddDeferred
    \/ LinkAddAgain
    \/ LinkFree
    \/ LinkGet

SpecReadd == Init /\ [][NextReadd]_vars

\* the runs of a link whose profile is static: addresses and routes, no DHCP, no
\* IPv4LL, no virtual parents; every submitted request is eventually answered
StaticProfiles ==
    { Profile(FALSE, FALSE, FALSE, FALSE, FALSE, FALSE, <<1>>, <<1>>, <<>>),
      Profile(FALSE, FALSE, FALSE, FALSE, FALSE, FALSE, <<1, 2>>, <<1, 2>>, <<>>) }

LinkInitializedStatic ==
    /\ LinkInitializedIn(NoFault, StaticProfiles \cup {NullNetwork})
    /\ UNCHANGED events

NextStatic ==
    \/ Complete
    \/ LinkInitializedStatic
    \/ LinkUpdate

SpecStatic == Init /\ [][NextStatic]_vars /\ WF_vars(Complete)

\* the runs of a link whose profile configures nothing: no DHCP, no IPv4LL, no
\* static address and no static route, with or without a virtual parent
BareProfiles ==
    { Profile(FALSE, FALSE, FALSE, FALSE, FALSE, FALSE, <<>>, <<>>, <<>>),
      Profile(FALSE, FALSE, FALSE, FALSE, FALSE, FALSE, <<>>, <<>>, <<"bridge">>),
      Profile(FALSE, FALSE, FALSE, FALSE, FALSE, FALSE, <<>>, <<>>, <<"bridge", "bond">>) }

LinkInitializedBare ==
    /\ LinkInitializedIn(NoFault, BareProfiles \cup {NullNetwork})
    /\ UNCHANGED events

NextBare ==
    \/ Complete
    \/ LinkInitializedBare
    \/ LinkUpdate

SpecBare == Init /\ [][NextBare]_vars

\* ================================================================ claims
Outstanding(kind) == Len(SelectSeq(rtnl, LAMBDA q : q.kind = kind))
Pending == addr_messages + route_messages + enslaving
Quiescent == rtnl = <<>>

\* ---------------------------------------------------------------- C1
\* C1: in every reachable state a CONFIGURED link has addr_messages, route_messages
\* and enslaving at zero and no address, route or enslave request in flight, and no
\* route reply is ever delivered to a CONFIGURED link (route_handler's state
\* assertion never fails).
C1_ConfiguredHasNothingPending ==
    /\ state = LINK_STATE_CONFIGURED =>
          /\ addr_messages = 0 /\ route_messages = 0 /\ enslaving = 0
          /\ Outstanding("address_configure") = 0
          /\ Outstanding("route_configure") = 0
          /\ Outstanding("enslave") = 0
    /\ aborted \notin {"route_handler: state", "route_handler: route_messages",
                       "link_enter_configured: state"}

\* CONFIGURED was entered from the reply to the last route of a DHCP pass while
\* other requests (drops, updates, MTU) are still in flight
C1_Witness ==
    /\ state = LINK_STATE_CONFIGURED
    /\ last.h = "complete" /\ last.a = "route_configure"
    /\ dhcp_lease # NoLease
    /\ rtnl # <<>>

\* ---------------------------------------------------------------- C2
\* C2: FAILED is absorbing: from a FAILED link no step changes the state and no
\* step submits a request (the queue only loses its head).
C2_FailedIsAbsorbing ==
    [][state = LINK_STATE_FAILED =>
          /\ state' = LINK_STATE_FAILED
          /\ (rtnl' = rtnl \/ rtnl' = Tail(rtnl))]_vars

\* ---------------------------------------------------------------- C3
RouteReply == last'.h = "complete" /\ last'.a = "route_configure"

\* C3: every route reply decrements route_messages by exactly one; the reply moves
\* the link to CONFIGURED only when the counter reached zero in SETTING_ROUTES; a
\* reply delivered in SETTING_ADDRESSES leaves the state and the other counters alone.
C3_StaleRouteReply ==
    [][RouteReply =>
          /\ aborted' = NoAbort
          /\ route_messages' = route_messages - 1
          /\ addr_messages' = addr_messages
          /\ enslaving' = enslaving
          /\ (state' # state =>
                 /\ state = LINK_STATE_SETTING_ROUTES
                 /\ state' = LINK_STATE_CONFIGURED
                 /\ route_messages' = 0)
          /\ (state = LINK_STATE_SETTING_ADDRESSES => state' = LINK_STATE_SETTING_ADDRESSES)]_vars

\* the last route reply of an earlier pass arrived after the regression
C3_Witness ==
    /\ last.h = "complete" /\ last.a = "route_configure"
    /\ last.from = LINK_STATE_SETTING_ADDRESSES
    /\ state = LINK_STATE_SETTING_ADDRESSES
    /\ route_messages = 0

\* ---------------------------------------------------------------- C4
\* IP_CHANGE was just handled for a non-critical link that was in SETTING_ROUTES
\* with route replies outstanding
C4_IpChangeInSettingRoutes ==
    /\ last.h = "dhcp_handler" /\ last.a = DHCP_EVENT_IP_CHANGE
    /\ last.from = LINK_STATE_SETTING_ROUTES
    /\ ~network.dhcp_critical
    /\ route_messages > 0

\* a DHCP, IPv4LL, RTM_NEWLINK or enumerator event other than that one was handled
C4_FurtherEvent == last.h # "complete" /\ ~C4_IpChangeInSettingRoutes

\* C4: after a DHCP IP_CHANGE in SETTING_ROUTES with route replies outstanding the
\* link is in SETTING_ADDRESSES, and if every request is eventually answered it
\* reaches CONFIGURED with the three counters at zero, unless a further event
\* arrives first.
C4_IpChangeEventuallyConfigured ==
    /\ [](C4_IpChangeInSettingRoutes => state = LINK_STATE_SETTING_ADDRESSES)
    /\ C4_IpChangeInSettingRoutes
          ~> ((state = LINK_STATE_CONFIGURED /\ Pending = 0) \/ C4_FurtherEvent)

C4_Witness ==
    /\ C4_IpChangeInSettingRoutes
    /\ state = LINK_STATE_SETTING_ADDRESSES
    /\ Outstanding("route_configure") > 0
    /\ addr_messages > 0

\* ---------------------------------------------------------------- C5
\* C5: in every reachable state a link in SETTING_ROUTES has addr_messages at zero
\* and no address request in flight.
C5_RoutesAfterAddresses ==
    state = LINK_STATE_SETTING_ROUTES =>
        addr_messages = 0 /\ Outstanding("address_configure") = 0

\* SETTING_ROUTES entered from the last address reply of a pass, routes submitted
C5_Witness ==
    /\ state = LINK_STATE_SETTING_ROUTES
    /\ last.h = "complete" /\ last.a = "address_configure"
    /\ route_messages > 0

\* ---------------------------------------------------------------- C6
DhcpAddressInstalled == \E a \in kaddrs : a.obj = "dhcp"
Ipv4llAddressPreferred == [obj |-> "ipv4ll", arg |-> CACHE_INFO_INFINITY_LIFE_TIME] \in kaddrs

\* C6 as stated: at no moment are a leased address and a preferred link-local
\* address both installed.
C6_AtMostOneDynamicAddress == ~(DhcpAddressInstalled /\ Ipv4llAddressPreferred)

\* C6 amended: whenever no request is in flight, at most one of the leased address
\* and the link-local address with non-zero preferred lifetime is installed.
C6_AtMostOneWhenQuiescent ==
    Quiescent => ~(DhcpAddressInstalled /\ Ipv4llAddressPreferred)

\* the leased address is installed next to the deprecated link-local address
C6_Witness ==
    /\ Quiescent
    /\ DhcpAddressInstalled
    /\ [obj |-> "ipv4ll", arg |-> 0] \in kaddrs
    /\ state = LINK_STATE_CONFIGURED

\* ---------------------------------------------------------------- C7
CriticalLeaseEvent ==
    /\ last'.h = "dhcp_handler"
    /\ last'.a \in {DHCP_EVENT_EXPIRED, DHCP_EVENT_STOP, DHCP_EVENT_IP_CHANGE}
    /\ network.dhcp_critical

\* C7: for a critical profile a DHCP EXPIRED, STOP or IP_CHANGE changes neither the
\* state, the lease nor a counter, submits nothing, and touches neither the
\* hostname nor the IPv4LL client.
C7_CriticalLeaseRefusal ==
    [][CriticalLeaseEvent =>
          /\ state' = state
          /\ dhcp_lease' = dhcp_lease
          /\ addr_messages' = addr_messages
          /\ route_messages' = route_messages
          /\ enslaving' = enslaving
          /\ rtnl' = rtnl
          /\ hostname' = hostname
          /\ ipv4ll' = ipv4ll
          /\ state_file' = state_file]_vars

\* scenario D: the event arrived at a CONFIGURED link holding a lease
C7_Witness ==
    /\ last.h = "dhcp_handler"
    /\ last.a \in {DHCP_EVENT_EXPIRED, DHCP_EVENT_STOP, DHCP_EVENT_IP_CHANGE}
    /\ last.from = LINK_STATE_CONFIGURED
    /\ network.dhcp_critical
    /\ dhcp_lease # NoLease
    /\ state = LINK_STATE_CONFIGURED

\* ---------------------------------------------------------------- C8
DhcpResidue ==
    \/ \E a \in kaddrs : a.obj = "dhcp"
    \/ \E r \in kroutes : r.obj \in {"gateway", "default"}

\* C8: for a non-critical profile, once the client has given up its lease (EXPIRED
\* or STOP was delivered to a link that is not FAILED) and every request has been
\* answered, the link holds no lease and the interface has no leased address, no
\* host route to a gateway and no default route.
C8_LeaseLostLeavesNothing ==
    (/\ Quiescent
     /\ aborted = NoAbort
     /\ dhcp_client.present
     /\ ~network.dhcp_critical
     /\ state # LINK_STATE_FAILED
     /\ dhcp_client.lease = NoLease)
    => (dhcp_lease = NoLease /\ ~DhcpResidue)

\* the last of the three drops was answered
C8_Witness ==
    /\ Quiescent
    /\ last.h = "complete" /\ last.a = "address_drop"
    /\ dhcp_client.present /\ ~ipv4ll.present
    /\ dhcp_client.lease = NoLease
    /\ dhcp_lease = NoLease
    /\ state = LINK_STATE_CONFIGURED

\* ---------------------------------------------------------------- C9
Ipv4llResidue ==
    \/ \E a \in kaddrs : a.obj = "ipv4ll"
    \/ \E r \in kroutes : r.obj = "ipv4ll"

\* C9: on a link without a lease, once the IPv4LL client has given up its address
\* (CONFLICT or STOP was delivered) and every request has been answered, the
\* interface has neither the link-local address nor the link-scope route.
C9_Ipv4llLostLeavesNothing ==
    (/\ Quiescent
     /\ aborted = NoAbort
     /\ ipv4ll.present
     /\ ~ipv4ll.bound
     /\ dhcp_lease = NoLease)
    => ~Ipv4llResidue

C9_Witness ==
    /\ Quiescent
    /\ last.h = "complete" /\ last.a = "route_drop"
    /\ ipv4ll.present /\ ~ipv4ll.bound /\ ~dhcp_client.present
    /\ state = LINK_STATE_CONFIGURED

\* --------------------------------------------------------------- C10
GatewayThenDefault(q, i, l) ==
    /\ q[i] = Req("route_configure", "gateway", l)
    /\ i < Len(q)
    /\ q[i + 1] = Req("route_configure", "default", l)

\* C10: when SETTING_ROUTES is entered with a lease held, the host route to the
\* lease's gateway and the default route through it are submitted in that step,
\* the host route first; no default route is ever queued without the host route
\* right before it.
C10_HostRouteBeforeDefault ==
    /\ [][(state' = LINK_STATE_SETTING_ROUTES /\ state # LINK_STATE_SETTING_ROUTES
             /\ dhcp_lease' # NoLease) =>
             /\ Len(rtnl') >= 2
             /\ GatewayThenDefault(rtnl', Len(rtnl') - 1, dhcp_lease')
             /\ route_messages' >= 2]_vars
    /\ [](\A i \in 1..Len(rtnl) : \A l \in Leases :
             /\ (rtnl[i] = Req("route_configure", "default", l) /\ i > 1)
                   => rtnl[i - 1] = Req("route_configure", "gateway", l)
             /\ rtnl[i] = Req("route_configure", "gateway", l)
                   => GatewayThenDefault(rtnl, i, l))

C10_Witness ==
    /\ state = LINK_STATE_SETTING_ROUTES
    /\ dhcp_lease # NoLease
    /\ last.h = "complete" /\ last.a = "address_configure"
    /\ GatewayThenDefault(rtnl, Len(rtnl) - 1, dhcp_lease)

\* --------------------------------------------------------------- C11
\* the requests the step submitted (the step is an event: nothing was answered)
Submitted == SubSeq(rtnl', Len(rtnl) + 1, Len(rtnl'))
Has(q, kind, obj) == \E i \in 1..Len(q) : q[i].kind = kind /\ q[i].obj = obj

DhcpAcquireWithIpv4ll ==
    /\ last'.h = "dhcp_handler" /\ last'.a = DHCP_EVENT_IP_ACQUIRE
    /\ network.ipv4ll
    /\ state # LINK_STATE_FAILED

\* C11: when IP_ACQUIRE is handled for a link whose profile enables IPv4LL (the
\* link is not FAILED), a bound link-local address is re-issued with preferred
\* lifetime 0 as the last request of the step, no link-local address drop is
\* submitted and the client keeps running; an unbound client is stopped and no
\* link-local request is submitted.
C11_AcquireDeprecatesOrStops ==
    [][DhcpAcquireWithIpv4ll =>
          IF ipv4ll_is_bound(ipv4ll)
          THEN /\ Len(Submitted) > 0
               /\ Submitted[Len(Submitted)] = Req("address_update", "ipv4ll", 0)
               /\ ~Has(Submitted, "address_drop", "ipv4ll")
               /\ ipv4ll' = ipv4ll
          ELSE /\ ~sd_ipv4ll_is_running(ipv4ll')
               /\ ipv4ll'.stop_pending
               /\ ~Has(Submitted, "address_update", "ipv4ll")
               /\ ~Has(Submitted, "address_drop", "ipv4ll")]_vars

\* the lease arrived at a link configured with a claimed link-local address
C11_Witness ==
    /\ last.h = "dhcp_handler" /\ last.a = DHCP_EVENT_IP_ACQUIRE
    /\ last.from = LINK_STATE_CONFIGURED
    /\ ipv4ll_is_bound(ipv4ll)
    /\ dhcp_lease # NoLease
    /\ rtnl # <<>>
    /\ rtnl[Len(rtnl)] = Req("address_update", "ipv4ll", 0)

\* the lease arrived before the link-local client had claimed an address
C11_WitnessStopped ==
    /\ last.h = "dhcp_handler" /\ last.a = DHCP_EVENT_IP_ACQUIRE
    /\ network.ipv4ll
    /\ ~ipv4ll_is_bound(ipv4ll)
    /\ ipv4ll.stop_pending

\* --------------------------------------------------------------- C12
DhcpExpiredWithIpv4ll ==
    /\ last'.h = "dhcp_handler" /\ last'.a = DHCP_EVENT_EXPIRED
    /\ network.ipv4ll /\ ~network.dhcp_critical
    /\ state # LINK_STATE_FAILED

\* EXPIRED was just handled by a CONFIGURED link with a claimed link-local address
C12_ExpiredWhileConfigured ==
    /\ last.h = "dhcp_handler" /\ last.a = DHCP_EVENT_EXPIRED
    /\ last.from = LINK_STATE_CONFIGURED
    /\ network.ipv4ll /\ ~network.dhcp_critical
    /\ ipv4ll_is_bound(ipv4ll)

C12_FurtherEvent == last.h # "complete" /\ ~C12_ExpiredWhileConfigured

\* C12: when EXPIRED is handled for a non-critical profile that enables IPv4LL, a
\* client that is not running is started, and the address of a running, bound
\* client is re-issued with infinite preferred lifetime; a link that was CONFIGURED
\* with a lease and a bound link-local address stays CONFIGURED, releases the lease
\* and submits the drops of the two DHCP routes and of the DHCP address, and once
\* every request is answered the interface has none of the three (unless a further
\* event arrives first).
C12_ExpiredReapprovesIpv4ll ==
    /\ [][DhcpExpiredWithIpv4ll =>
             IF ~sd_ipv4ll_is_running(ipv4ll)
             THEN /\ ipv4ll' = sd_ipv4ll_start(ipv4ll)
                  /\ ~Has(Submitted, "address_update", "ipv4ll")
             ELSE IF ipv4ll_is_bound(ipv4ll)
             THEN /\ Len(Submitted) > 0
                  /\ Submitted[Len(Submitted)]
                        = Req("address_update", "ipv4ll", CACHE_INFO_INFINITY_LIFE_TIME)
                  /\ ipv4ll' = ipv4ll
             ELSE /\ ipv4ll' = ipv4ll
                  /\ ~Has(Submitted, "address_update", "ipv4ll")]_vars
    /\ [][(DhcpExpiredWithIpv4ll /\ state = LINK_STATE_CONFIGURED
             /\ ipv4ll_is_bound(ipv4ll) /\ dhcp_lease # NoLease) =>
             /\ state' = LINK_STATE_CONFIGURED
             /\ dhcp_lease' = NoLease
             /\ Len(Submitted) >= 3
             /\ SubSeq(Submitted, 1, 3) = DhcpLostReqs(dhcp_lease)]_vars
    /\ C12_ExpiredWhileConfigured
          ~> ((state = LINK_STATE_CONFIGURED /\ Quiescent /\ dhcp_lease = NoLease
                  /\ ~DhcpResidue)
              \/ C12_FurtherEvent)

\* scenario C: the drops and the re-approval are in flight, the lease's address and
\* routes still installed
C12_Witness ==
    /\ C12_ExpiredWhileConfigured
    /\ state = LINK_STATE_CONFIGURED
    /\ dhcp_lease = NoLease
    /\ Has(rtnl, "address_drop", "dhcp")
    /\ rtnl[Len(rtnl)] = Req("address_update", "ipv4ll", CACHE_INFO_INFINITY_LIFE_TIME)
    /\ \E a \in kaddrs : a.obj = "dhcp"
    /\ \E r \in kroutes : r.obj = "default"

\* the lease expired after the link-local client had been stopped
C12_WitnessStarted ==
    /\ last.h = "dhcp_handler" /\ last.a = DHCP_EVENT_EXPIRED
    /\ network.ipv4ll /\ ~network.dhcp_critical
    /\ sd_ipv4ll_is_running(ipv4ll) /\ ipv4ll.stop_pending

\* --------------------------------------------------------------- C13
\* C13: while an enslave request is unanswered (enslaving > 0) the link is in
\* ENSLAVING or FAILED and no address or route request is in flight, and no
\* enslave reply ever finds the link in another state (enslave_handler's state
\* assertion never fails), whatever DHCP or IPv4LL event arrives in between.
C13_EnslaveBeforeConfigure ==
    /\ aborted # "enslave_handler: state"
    /\ enslaving > 0 =>
          /\ state \in {LINK_STATE_ENSLAVING, LINK_STATE_FAILED}
          /\ Outstanding("address_configure") = 0
          /\ Outstanding("route_configure") = 0

\* --------------------------------------------------------------- C14
\* an enslave reply is delivered to a link in ENSLAVING or FAILED
EnslaveReply ==
    /\ last'.h = "complete" /\ last'.a = "enslave"
    /\ state \in {LINK_STATE_ENSLAVING, LINK_STATE_FAILED}

\* C14: an enslave reply carrying an error moves an ENSLAVING link to FAILED and
\* rewrites the state file with STATE=failed; every enslave reply decrements
\* enslaving by one, and a reply delivered to a FAILED link changes nothing else
\* and submits nothing (link_enslaved does not run); enslaving equals the number
\* of enslave requests in flight, so it drains to zero.
C14_EnslaveFailure ==
    /\ [][EnslaveReply =>
             /\ enslaving' = enslaving - 1
             /\ (last'.r # "OK" \/ state = LINK_STATE_FAILED) =>
                   /\ state' = LINK_STATE_FAILED
                   /\ state_file'.written /\ state_file'.state_line = "failed"
                   /\ rtnl' = Tail(rtnl)
                   /\ UNCHANGED <<addr_messages, route_messages, flags, dhcp_client,
                                  ipv4ll, dhcp_lease>>
             /\ state = LINK_STATE_FAILED => state_file' = state_file]_vars
    /\ [](Alive => enslaving = Outstanding("enslave"))

\* scenario E: the bridge was refused, the bond's reply arrived at the FAILED link
C14_Witness ==
    /\ last.h = "complete" /\ last.a = "enslave"
    /\ last.from = LINK_STATE_FAILED
    /\ Len(network.netdevs) = 2
    /\ enslaving = 0
    /\ state = LINK_STATE_FAILED
    /\ state_file.state_line = "failed"

\* the refusal itself
C14_WitnessRefused ==
    /\ last.h = "complete" /\ last.a = "enslave" /\ last.r = "EBUSY"
    /\ last.from = LINK_STATE_ENSLAVING
    /\ enslaving = 1
    /\ state = LINK_STATE_FAILED

\* --------------------------------------------------------------- C15
ConfigureReply ==
    /\ last'.h = "complete"
    /\ last'.a \in {"address_configure", "route_configure"}

\* the link after the callback of the oldest request ran with answer e
AfterReply(e) == Callback([World EXCEPT !.rtnl = Tail(rtnl)], Head(rtnl), e)

\* an address or route reply carrying an error was just delivered to a link that
\* is not FAILED
C15_ErrorReply ==
    /\ last.h = "complete"
    /\ last.a \in {"address_configure", "route_configure"}
    /\ last.r # "OK"
    /\ state # LINK_STATE_FAILED

C15_FurtherEvent == last.h # "complete"

\* C15: the reply to an address or route request leaves the link exactly as a
\* successful reply would, whatever errno it carries; it never moves the link to
\* FAILED; the reply that drains the stage's counter advances the stage; and after
\* an error reply (EEXIST for a static address or route that is already installed,
\* or another errno) the link reaches CONFIGURED with the three counters at zero
\* once every request is answered, unless a further event arrives first.
C15_ErrorsAreTolerated ==
    /\ [][ConfigureReply =>
             /\ \A e \in {"OK", "EEXIST", "EINVAL", "ENETUNREACH"} :
                   LET w == AfterReply(e) IN
                   /\ state' = w.state
                   /\ addr_messages' = w.addr_messages
                   /\ route_messages' = w.route_messages
                   /\ enslaving' = w.enslaving
                   /\ rtnl' = w.rtnl
                   /\ state_file' = w.state_file
             /\ state' = LINK_STATE_FAILED => state = LINK_STATE_FAILED
             /\ (last'.a = "address_configure" /\ state = LINK_STATE_SETTING_ADDRESSES
                    /\ addr_messages' = 0)
                   => state' \in {LINK_STATE_SETTING_ROUTES, LINK_STATE_CONFIGURED}
             /\ (last'.a = "route_configure" /\ state = LINK_STATE_SETTING_ROUTES
                    /\ route_messages' = 0)
                   => state' = LINK_STATE_CONFIGURED]_vars
    /\ C15_ErrorReply
          ~> ((state = LINK_STATE_CONFIGURED /\ Pending = 0) \/ C15_FurtherEvent)

\* the static address was configured a second time and the kernel answered EEXIST
C15_Witness ==
    /\ C15_ErrorReply
    /\ last.a = "address_configure" /\ last.r = "EEXIST"
    /\ Len(network.static_addresses) > 0
    /\ state = LINK_STATE_SETTING_ADDRESSES

\* the last route of a pass was refused and the link became CONFIGURED
C15_WitnessAdvanced ==
    /\ C15_ErrorReply
    /\ last.a = "route_configure" /\ last.r = "ENETUNREACH"
    /\ last.from = LINK_STATE_SETTING_ROUTES
    /\ state = LINK_STATE_CONFIGURED

\* --------------------------------------------------------------- C16
\* the step runs link_enslaved for a link that is not up: link_up is called
LinkUpCalled ==
    /\ IFF_UP \notin flags
    /\ \/ /\ last'.h = "link_initialized"
          /\ state = LINK_STATE_INITIALIZING
          /\ network'.present /\ Len(network'.netdevs) = 0
       \/ /\ last'.h = "complete" /\ last'.a = "enslave" /\ last'.r = "OK"
          /\ state = LINK_STATE_ENSLAVING
          /\ enslaving = 1

LinkUpRejected == LinkUpCalled /\ last'.f = "link_up"

\* the reply to the link-up SETLINK carries an error and reaches a link that is
\* not FAILED
LinkUpRefused ==
    /\ last'.h = "complete" /\ last'.a = "link_up" /\ last'.r # "OK"
    /\ state # LINK_STATE_FAILED

\* C16 as stated: a rejected submission of the link-up SETLINK and an error reply
\* to it both move the link to FAILED.
C16_LinkUpFailureFails ==
    [][(LinkUpRejected \/ LinkUpRefused) => state' = LINK_STATE_FAILED]_vars

\* C16 amended: a rejected submission of the link-up SETLINK moves the link to
\* FAILED (STATE=failed written, nothing submitted); an accepted one queues the
\* request and does not fail the link; an error reply to it is only logged: state,
\* flags, counters, clients and state file stay as they are and nothing is
\* submitted.
C16_LinkUpRejectedFails ==
    /\ [][LinkUpRejected =>
             /\ state' = LINK_STATE_FAILED
             /\ state_file'.state_line = "failed"
             /\ ~Has(rtnl', "link_up", "link")
             /\ addr_messages' = 0 /\ route_messages' = 0]_vars
    /\ [][(LinkUpCalled /\ ~LinkUpRejected) =>
             /\ state' # LINK_STATE_FAILED
             /\ Has(rtnl', "link_up", "link")]_vars
    /\ [][LinkUpRefused =>
             /\ state' = state
             /\ rtnl' = Tail(rtnl)
             /\ UNCHANGED <<flags, addr_messages, route_messages, enslaving,
                            dhcp_client, ipv4ll, dhcp_lease, state_file>>]_vars

\* the kernel refused to bring the interface up while the static address of the
\* link was being set
C16_Witness ==
    /\ last.h = "complete" /\ last.a = "link_up" /\ last.r = "EPERM"
    /\ last.from = LINK_STATE_SETTING_ADDRESSES
    /\ state = LINK_STATE_SETTING_ADDRESSES
    /\ IFF_UP \notin flags
    /\ addr_messages > 0

\* the SETLINK could not be submitted after the last netdev was joined
C16_WitnessRejected ==
    /\ last.h = "complete" /\ last.a = "enslave" /\ last.f = "link_up"
    /\ last.from = LINK_STATE_ENSLAVING
    /\ state = LINK_STATE_FAILED
    /\ enslaving = 0
    /\ state_file.state_line = "failed"

\* --------------------------------------------------------------- C17
\* the handler of the step asks for an address or a route and gets none
AddressSetAllocationFailed ==
    /\ last'.f = "address_new_dynamic"
    /\ \/ last'.h = "dhcp_handler" /\ last'.a = DHCP_EVENT_IP_ACQUIRE
          /\ state # LINK_STATE_FAILED
       \/ last'.h = "ipv4ll_handler" /\ last'.a = IPV4LL_EVENT_BIND

RouteSetAllocationFailed ==
    /\ last'.f = "route_new_dynamic"
    /\ last'.h = "complete" /\ last'.a = "address_configure"
    /\ state = LINK_STATE_SETTING_ADDRESSES /\ addr_messages = 1
    /\ (dhcp_lease # NoLease \/ (ipv4ll.present /\ ipv4ll_is_bound(ipv4ll)))

Ipv4llUpdateAllocationFailed ==
    /\ last'.f = "address_new_dynamic"
    /\ last'.h = "dhcp_handler" /\ last'.a = DHCP_EVENT_EXPIRED
    /\ state # LINK_STATE_FAILED /\ ~network.dhcp_critical
    /\ network.ipv4ll /\ sd_ipv4ll_is_running(ipv4ll) /\ ipv4ll_is_bound(ipv4ll)

Ipv4llDropAllocationFailed ==
    /\ last'.f \in {"address_new_dynamic", "route_new_dynamic"}
    /\ last'.h = "ipv4ll_handler"
    /\ last'.a \in {IPV4LL_EVENT_STOP, IPV4LL_EVENT_CONFLICT}
    /\ ipv4ll_is_bound(ipv4ll)

LeaseCleanupAllocationFailed ==
    /\ last'.f \in {"address_new_dynamic", "route_new_dynamic"}
    /\ last'.h = "dhcp_handler" /\ last'.a \in {DHCP_EVENT_EXPIRED, DHCP_EVENT_STOP}
    /\ state # LINK_STATE_FAILED /\ ~network.dhcp_critical
    /\ dhcp_lease # NoLease

\* C17: a step in which the allocation of an address or route fails, while the
\* address set or the route set is built, in an IPv4LL update or drop, or in the
\* cleanup of a lost lease, leaves the link FAILED.
C17_AllocationFailureFails ==
    [][(\/ AddressSetAllocationFailed
        \/ RouteSetAllocationFailed
        \/ Ipv4llUpdateAllocationFailed
        \/ Ipv4llDropAllocationFailed
        \/ LeaseCleanupAllocationFailed) => state' = LINK_STATE_FAILED]_vars

\* --------------------------------------------------------------- C18
LoggedEvent ==
    \/ last'.h = "dhcp_handler" /\ last'.a \in {DHCP_EVENT_NO_LEASE, EVENT_ERROR}
    \/ last'.h = "ipv4ll_handler" /\ last'.a = EVENT_ERROR

\* C18: a DHCP NO_LEASE event, a negative DHCP event and a negative IPv4LL event
\* change neither the state, the lease nor a counter and submit nothing; the two
\* clients and the state file are left alone as well.
C18_LoggedEventsChangeNothing ==
    [][LoggedEvent =>
          /\ state' = state
          /\ dhcp_lease' = dhcp_lease
          /\ addr_messages' = addr_messages
          /\ route_messages' = route_messages
          /\ enslaving' = enslaving
          /\ rtnl' = rtnl
          /\ UNCHANGED <<dhcp_client, ipv4ll, state_file, flags, hostname>>]_vars

\* the link-local client reported an error to a configured link
C18_Witness ==
    /\ last.h = "ipv4ll_handler" /\ last.a = EVENT_ERROR
    /\ last.from = LINK_STATE_CONFIGURED
    /\ state = LINK_STATE_CONFIGURED
    /\ ipv4ll_is_bound(ipv4ll)

\* the DHCP client found its address in use while the link waited for a lease
C18_WitnessNoLease ==
    /\ last.h = "dhcp_handler" /\ last.a = DHCP_EVENT_NO_LEASE
    /\ state = LINK_STATE_ENSLAVING
    /\ dhcp_lease = NoLease

\* the DHCP client reported an error while routes were being set
C18_WitnessDhcpError ==
    /\ last.h = "dhcp_handler" /\ last.a = EVENT_ERROR
    /\ state = LINK_STATE_SETTING_ROUTES
    /\ route_messages > 0

\* --------------------------------------------------------------- C19
\* a lease is acquired for a profile that takes the MTU from the lease
LeaseAcquiredWithMtu ==
    /\ last'.h = "dhcp_handler"
    /\ last'.a \in {DHCP_EVENT_IP_ACQUIRE, DHCP_EVENT_IP_CHANGE}
    /\ network.dhcp_mtu
    /\ dhcp_lease' # NoLease

\* C19: a lease acquired while original_mtu has not been captured (no RTM_NEWLINK
\* carrying IFLA_MTU was processed yet) submits no SETLINK for the MTU.
C19_MtuOnlyAfterOriginal ==
    [][(LeaseAcquiredWithMtu /\ original_mtu = 0) =>
          ~Has(Submitted, "set_mtu", "link")]_vars

\* --------------------------------------------------------------- C20
\* C20: once original_mtu holds the MTU read from an RTM_NEWLINK, no step changes
\* it: not an RTM_NEWLINK carrying another MTU, not a DHCP or IPv4LL event, not
\* a reply.
C20_OriginalMtuSetOnce ==
    [][original_mtu # 0 => original_mtu' = original_mtu]_vars

\* an RTM_NEWLINK carrying the changed MTU was processed after the first MTU had
\* been stored
C20_Witness ==
    /\ last.h = "link_update" /\ last.a = ToString(JumboMtu)
    /\ original_mtu \in MtuValues

\* the lease's MTU was applied and acknowledged
C20_WitnessLeaseMtu ==
    /\ last.h = "complete" /\ last.a = "set_mtu" /\ last.r = "OK"
    /\ original_mtu \in MtuValues
    /\ dhcp_lease # NoLease

\* --------------------------------------------------------------- C21
\* the held lease is given up by a step: EXPIRED, STOP or IP_CHANGE handled for a
\* non-critical profile by a link that is not FAILED
LeaseLostStep ==
    /\ last'.h = "dhcp_handler"
    /\ last'.a \in {DHCP_EVENT_EXPIRED, DHCP_EVENT_STOP, DHCP_EVENT_IP_CHANGE}
    /\ ~network.dhcp_critical
    /\ state # LINK_STATE_FAILED
    /\ dhcp_lease # NoLease

\* the held lease carried an MTU that dhcp_lease_acquired applied
LeaseMtuApplied == network.dhcp_mtu /\ LeaseMtu(dhcp_lease) # 0
\* the held lease carried a hostname that dhcp_lease_acquired applied
LeaseHostnameApplied == network.dhcp_hostname /\ LeaseHostname(dhcp_lease) # "-"

\* the hostname last sent in a step that ends with the lease of the next state
HostnameAfterLoss ==
    IF dhcp_lease' # NoLease /\ LeaseHostname(dhcp_lease') # "-"
    THEN LeaseHostname(dhcp_lease')
    ELSE ""

\* C21 as stated: whenever the lost lease's MTU had been applied, the step that
\* gives the lease up submits a SETLINK carrying original_mtu.
C21_MtuAlwaysRestored ==
    [][(LeaseLostStep /\ LeaseMtuApplied) =>
          /\ Len(Submitted) >= 4
          /\ Submitted[4] = Req("set_mtu", "link", original_mtu)]_vars

\* C21 amended: the step that gives up a lease whose MTU had been applied submits,
\* right after the three drops, a SETLINK carrying original_mtu when original_mtu
\* differs from the lease's MTU, and no SETLINK restoring the MTU when the two are
\* equal; when the lease's hostname had been applied the empty hostname is sent;
\* the lease is released in the same step, after both.
C21_RestoredOnLeaseLost ==
    /\ [][(LeaseLostStep /\ LeaseMtuApplied) =>
             /\ Len(Submitted) >= 3
             /\ SubSeq(Submitted, 1, 3) = DhcpLostReqs(dhcp_lease)
             /\ IF original_mtu # LeaseMtu(dhcp_lease)
                THEN /\ Len(Submitted) >= 4
                     /\ Submitted[4] = Req("set_mtu", "link", original_mtu)
                ELSE \A i \in 1..Len(Submitted) :
                        Submitted[i].kind = "set_mtu" =>
                           /\ dhcp_lease' # NoLease
                           /\ Submitted[i].arg = LeaseMtu(dhcp_lease')
             /\ dhcp_lease' # dhcp_lease]_vars
    /\ [][(LeaseLostStep /\ LeaseHostnameApplied) =>
             /\ hostname' = HostnameAfterLoss
             /\ dhcp_lease' # dhcp_lease]_vars
    /\ [][(LeaseLostStep /\ last'.a # DHCP_EVENT_IP_CHANGE) => dhcp_lease' = NoLease]_vars

\* scenario B then EXPIRED: the MTU is put back and the hostname cleared
C21_Witness ==
    /\ last.h = "dhcp_handler" /\ last.a \in {DHCP_EVENT_EXPIRED, DHCP_EVENT_STOP}
    /\ network.dhcp_mtu /\ network.dhcp_hostname
    /\ original_mtu \in MtuValues
    /\ dhcp_lease = NoLease
    /\ Has(rtnl, "set_mtu", "link")
    /\ rtnl[Len(rtnl)] = Req("set_mtu", "link", original_mtu)
    /\ hostname = ""

\* the interface already had the MTU of the lease: nothing to put back
C21_WitnessSameMtu ==
    /\ last.h = "dhcp_handler" /\ last.a \in {DHCP_EVENT_EXPIRED, DHCP_EVENT_STOP}
    /\ network.dhcp_mtu
    /\ original_mtu = LeaseMtu(1)
    /\ last.from # LINK_STATE_FAILED
    /\ dhcp_lease = NoLease
    /\ Has(rtnl, "address_drop", "dhcp")
    /\ ~Has(rtnl, "set_mtu", "link")

\* --------------------------------------------------------------- C22
\* the link has a carrier: IFF_LOWER_UP set and IFF_DORMANT clear
Carrier(word) == IFF_LOWER_UP \in word /\ IFF_DORMANT \notin word

\* C22: whenever a step replaces the flag word by a different one, link_update_flags
\* computes carrier_gained exactly when the old word lacks the carrier and the new
\* one has it, carrier_lost exactly when the old word has the carrier and the new
\* one lacks it, and never both.
C22_CarrierTransitions ==
    [][flags' # flags =>
          /\ carrier_gained(flags, flags') <=> (~Carrier(flags) /\ Carrier(flags'))
          /\ carrier_lost(flags, flags') <=> (Carrier(flags) /\ ~Carrier(flags'))
          /\ ~(carrier_gained(flags, flags') /\ carrier_lost(flags, flags'))]_vars

\* the carrier was gained by leaving the dormant state, IFF_LOWER_UP already set
C22_Witness ==
    /\ last.h = "link_update" /\ last.a = "dormant"
    /\ Carrier(flags)
    /\ network.dhcp /\ dhcp_client.running

\* the carrier was lost by entering the dormant state
C22_WitnessLost ==
    /\ last.h = "link_update" /\ last.a = "carrier"
    /\ IFF_LOWER_UP \in flags /\ IFF_DORMANT \in flags
    /\ network.dhcp /\ dhcp_client.stop_pending

\* --------------------------------------------------------------- C23
DropsIn(q) == Len(SelectSeq(q, LAMBDA r : r.kind \in {"address_drop", "route_drop"}))

\* an RTM_NEWLINK takes the carrier away from a managed link that is not FAILED
CarrierLostStep ==
    /\ last'.h = "link_update"
    /\ network.present
    /\ state # LINK_STATE_FAILED
    /\ carrier_lost(flags, flags')

\* C23: the step that takes the carrier away stops the DHCP client when the profile
\* enables DHCP and the IPv4LL client when it enables IPv4LL, and leaves both alone
\* otherwise; the state, the lease, the three counters, the queue, the hostname and
\* the state file are unchanged; an address or route drop is only ever submitted
\* by a step that handles a DHCP or IPv4LL event.
C23_CarrierLossOnlyStops ==
    /\ [][CarrierLostStep =>
             /\ dhcp_client' = IF network.dhcp THEN sd_dhcp_client_stop(dhcp_client)
                               ELSE dhcp_client
             /\ ipv4ll' = IF network.ipv4ll THEN sd_ipv4ll_stop(ipv4ll) ELSE ipv4ll
             /\ UNCHANGED <<state, dhcp_lease, addr_messages, route_messages, enslaving,
                            rtnl, hostname, state_file, network, kaddrs, kroutes>>]_vars
    /\ [][DropsIn(rtnl') > DropsIn(rtnl) => last'.h \in {"dhcp_handler", "ipv4ll_handler"}]_vars

\* the carrier went away under a CONFIGURED link holding a lease: the lease and its
\* address stay, the client waits to report STOP
C23_Witness ==
    /\ last.h = "link_update"
    /\ last.from = LINK_STATE_CONFIGURED
    /\ state = LINK_STATE_CONFIGURED
    /\ ~Carrier(flags)
    /\ dhcp_lease # NoLease
    /\ ~dhcp_client.running /\ dhcp_client.stop_pending
    /\ DhcpAddressInstalled
    /\ Quiescent

\* --------------------------------------------------------------- C24
\* an RTM_NEWLINK brings the carrier to a managed link that is not FAILED
CarrierGainedStep ==
    /\ last'.h = "link_update"
    /\ network.present
    /\ state # LINK_STATE_FAILED
    /\ carrier_gained(flags, flags')

\* a profile is applied to a link whose stored flag word has the carrier
InitializedWithCarrier ==
    /\ last'.h = "link_initialized"
    /\ network'.present
    /\ Carrier(flags)

\* an RTM_NEWLINK changes the flag word of a link without a profile
UnmanagedFlagChange ==
    /\ last'.h = "link_update"
    /\ ~network.present
    /\ flags' # flags

\* C24: the step that brings the carrier to a managed link that is not FAILED starts
\* the IPv4LL client exactly when the profile enables IPv4LL and the DHCP client
\* exactly when it enables DHCP, changing nothing else of the link but the flag
\* word (and original_mtu, read by link_update); the same holds when a profile is
\* applied to a link that already has the carrier; a flag change on a link without
\* a profile stores the word, starts no client and submits nothing.
C24_CarrierGainStarts ==
    /\ [][CarrierGainedStep =>
             /\ ipv4ll' = IF network.ipv4ll THEN sd_ipv4ll_start(ipv4ll) ELSE ipv4ll
             /\ dhcp_client' = IF network.dhcp THEN sd_dhcp_client_start(dhcp_client)
                               ELSE dhcp_client
             /\ UNCHANGED <<state, dhcp_lease, addr_messages, route_messages, enslaving,
                            rtnl, hostname, state_file, network>>]_vars
    /\ [][InitializedWithCarrier =>
             /\ sd_ipv4ll_is_running(ipv4ll') <=> network'.ipv4ll
             /\ dhcp_client'.running <=> network'.dhcp
             /\ flags' = flags]_vars
    /\ [][UnmanagedFlagChange =>
             /\ ~network'.present
             /\ dhcp_client' = NoClient /\ ipv4ll' = NoIpv4ll
             /\ UNCHANGED <<state, dhcp_lease, addr_messages, route_messages, enslaving,
                            rtnl, hostname, state_file>>]_vars

\* the interface left the dormant state while the link waited for its clients
C24_Witness ==
    /\ last.h = "link_update" /\ last.a = "dormant"
    /\ last.from = LINK_STATE_ENSLAVING
    /\ state = LINK_STATE_ENSLAVING
    /\ Carrier(flags)
    /\ network.dhcp /\ network.ipv4ll
    /\ dhcp_client.running /\ sd_ipv4ll_is_running(ipv4ll)

\* the flag word of a link without a profile changed
C24_WitnessUnmanaged ==
    /\ last.h = "link_update" /\ last.a = "down"
    /\ ~network.present
    /\ Carrier(flags)
    /\ ipv4ll = NoIpv4ll /\ dhcp_client = NoClient

\* --------------------------------------------------------------- C25
\* the same addresses are installed, a leased address standing for any other
Leased(addrs) == {a \in addrs : a.obj = "dhcp"}
SameModuloLease(a, b) ==
    /\ a \ Leased(a) = b \ Leased(b)
    /\ Cardinality(Leased(a)) = Cardinality(Leased(b))

\* the carrier went away under a CONFIGURED link and came back; both clients have
\* reported their stop, each client that held a lease or an address holds one
\* again, every request has been answered
TripReacquired ==
    /\ last.trip.phase = "gained"
    /\ Carrier(flags)
    /\ Quiescent
    /\ ~dhcp_client.stop_pending /\ ~ipv4ll.stop_pending
    /\ last.trip.lease <=> dhcp_lease # NoLease
    /\ last.trip.bound <=> ipv4ll_is_bound(ipv4ll)

C25_WitnessIpv4ll ==
    /\ TripReacquired
    /\ ~network.dhcp /\ network.ipv4ll
    /\ last.trip.bound
    /\ last.h = "complete" /\ last.a = "route_configure" /\ last.r = "OK"
    /\ Ipv4llAddressPreferred

\* ---------------------------------------------------------------- C26
\* the Link a step allocated and left allocated
Created == DOMAIN allocated' \ DOMAIN allocated
\* every Link the registry holds is allocated and carries the ifindex it is
\* registered for, and no two allocated Links carry the same ifindex
OneLinkPerIfindex ==
    /\ \A i \in DOMAIN links : links[i] \in DOMAIN allocated /\ allocated[links[i]] = i
    /\ \A p, q \in DOMAIN allocated : allocated[p] = allocated[q] => p = q
\* a Link link_new returns is INITIALIZING, has no profile and all counters zero,
\* for every message, address and failing call
NewLinkIsBlank ==
    \A type \in {RTM_NEWLINK, RTM_DELLINK}, i \in 0..MaxIfindex,
       ptr \in (1..MaxLinks) \ DOMAIN allocated, f \in RegistryFaults \cup {NoFault} :
       LET m == link_new(Manager, type, i, ptr, f) IN
       m.ret = "OK" =>
          /\ m.link = ptr
          /\ m.w.state = LINK_STATE_INITIALIZING
          /\ m.w.network = NullNetwork
          /\ m.w.enslaving = 0 /\ m.w.addr_messages = 0 /\ m.w.route_messages = 0
\* link_add returned 0 for the ifindex: link_get returns the Link it created
AddRegisters ==
    (last'.h = "link_add" /\ last'.r = "OK") =>
       \E i \in 1..MaxIfindex :
          /\ last'.a = ToString(i)
          /\ Created = {hashmap_get(links', i)}
          /\ hashmap_get(links', i) # NoLink
\* a step other than link_free of that Link leaves link_get's answer as it is
StaysRegistered ==
    \A i \in 1..MaxIfindex :
       LET link == link_get(Manager, i).link IN
       (link # NoLink /\ ~(last'.h = "link_free" /\ last'.a = ToString(link)))
          => hashmap_get(links', i) = link
\* link_free of a Link: link_get of its ifindex returns -ENODEV
FreeUnregisters ==
    last'.h = "link_free" =>
       \E link \in DOMAIN allocated :
          /\ last'.a = ToString(link)
          /\ link \notin DOMAIN allocated'
          /\ hashmap_get(links', allocated[link]) = NoLink
C26_WitnessReadded ==
    /\ last.h = "link_add" /\ last.r = "OK" /\ last.a = ToString(FirstIfindex)
    /\ hashmap_get(links, FirstIfindex) \notin {NoLink, FirstLink}

\* ---------------------------------------------------------------- C27
\* the STATE= value the claim gives for a state
StateLine(s) ==
    IF s \in {LINK_STATE_INITIALIZING, LINK_STATE_ENSLAVING,
              LINK_STATE_SETTING_ADDRESSES, LINK_STATE_SETTING_ROUTES}
    THEN "configuring"
    ELSE IF s = LINK_STATE_CONFIGURED THEN "configured" ELSE "failed"
\* what link_save writes for the Link as it is
SavedNow == link_save(World).state_file
\* C27: link_save writes STATE=configuring for a Link in INITIALIZING, ENSLAVING,
\* SETTING_ADDRESSES or SETTING_ROUTES, STATE=configured in CONFIGURED and
\* STATE=failed in FAILED, and a DHCP_LEASE= line exactly when the Link holds a
\* lease; a step that rewrote the file left in it the lines of the Link as the
\* step left it.
C27_SaveWritesStateAndLease ==
    /\ [](/\ SavedNow.written
          /\ SavedNow.state_line = StateLine(state)
          /\ SavedNow.lease_line = (dhcp_lease # NoLease))
    /\ [][state_file' # state_file =>
             /\ state_file'.written
             /\ state_file'.state_line = StateLine(state')
             /\ state_file'.lease_line = (dhcp_lease' # NoLease)]_vars
\* the file was written for a CONFIGURED link holding a lease
C27_Witness ==
    /\ state = LINK_STATE_CONFIGURED
    /\ dhcp_lease # NoLease
    /\ state_file = [written |-> TRUE, state_line |-> "configured", lease_line |-> TRUE]
\* the file was written for a FAILED link without a lease
C27_WitnessFailed ==
    /\ state = LINK_STATE_FAILED
    /\ state_file = [written |-> TRUE, state_line |-> "failed", lease_line |-> FALSE]

\* ---------------------------------------------------------------- C28
\* the place of a STATE= value in the order configuring, configured, failed
StateRank(line) ==
    CASE line = "configuring" -> 1
      [] line = "configured" -> 2
      [] line = "failed" -> 3
\* C28: the STATE= values written to the state file of a Link never go back in the
\* order configuring, configured, failed: a step that rewrites the file writes a
\* value that is not before the one the file held.
C28_StateFileMonotone ==
    [][(state_file.written /\ state_file'.written) =>
          StateRank(state_file'.state_line) >= StateRank(state_file.state_line)]_vars

\* ---------------------------------------------------------------- C29
\* the profile of the link is static: addresses and routes, no DHCP, no IPv4LL and
\* no virtual parents
StaticOnly ==
    /\ network.present
    /\ ~network.dhcp /\ ~network.ipv4ll
    /\ network.netdevs = <<>>
    /\ network.static_addresses # <<>> /\ network.static_routes # <<>>
\* the requests of one kind a step submitted
NewRequests(kind) == Outstanding(kind)' - Outstanding(kind) + (IF last'.h = "complete" /\ last'.a = kind THEN 1 ELSE 0)
\* the step ran link_initialized and a profile matched
InitializedStep == last'.h = "link_initialized" /\ network'.present
\* C29: a link initialized with a static profile (addresses and routes, no DHCP, no
\* IPv4LL, no virtual parents) reaches CONFIGURED if every request is eventually
\* answered, and stays there with STATE=configured in its state file; its
\* addresses are submitted by link_initialized, all of them, and its routes only
\* once every address was answered, after which no address is submitted; SETLINK
\* bringing the link up is submitted exactly when IFF_UP is not set.
C29_StaticReachesConfigured ==
    /\ StaticOnly ~> [](/\ state = LINK_STATE_CONFIGURED
                        /\ state_file.written /\ state_file.state_line = "configured")
    /\ [](StaticOnly =>
            /\ Outstanding("route_configure") > 0 => Outstanding("address_configure") = 0
            /\ Outstanding("route_configure") > 0 =>
                  state \in {LINK_STATE_SETTING_ROUTES, LINK_STATE_CONFIGURED}
            /\ Outstanding("address_configure") > 0 => state = LINK_STATE_SETTING_ADDRESSES)
    /\ [][/\ InitializedStep =>
                /\ NewRequests("address_configure") = Len(network'.static_addresses)
                /\ NewRequests("route_configure") = 0
                /\ NewRequests("link_up") = (IF IFF_UP \in flags THEN 0 ELSE 1)
          /\ (StaticOnly /\ ~InitializedStep) =>
                /\ NewRequests("address_configure") = 0
                /\ NewRequests("link_up") = 0
                /\ NewRequests("route_configure") =
                      (IF state = LINK_STATE_SETTING_ADDRESSES /\ state' = LINK_STATE_SETTING_ROUTES
                       THEN Len(network.static_routes) ELSE 0)]_vars
\* the link is CONFIGURED after the last route reply: two addresses and two routes
\* were installed
C29_Witness ==
    /\ StaticOnly
    /\ Len(network.static_addresses) = 2
    /\ state = LINK_STATE_CONFIGURED
    /\ state_file.state_line = "configured"
    /\ Cardinality(kaddrs) = 2 /\ Cardinality(kroutes) = 2
    /\ last.h = "complete" /\ last.a = "route_configure"
\* the link was not up when it was initialized: SETLINK is in flight
C29_WitnessLinkUp ==
    /\ StaticOnly
    /\ last.h = "link_initialized"
    /\ Outstanding("link_up") = 1
    /\ Outstanding("address_configure") = Len(network.static_addresses)

\* ---------------------------------------------------------------- C30
\* the profile configures nothing: no DHCP, no IPv4LL, no static address, no
\* static route
Bare(n) ==
    /\ n.present
    /\ ~n.dhcp /\ ~n.ipv4ll
    /\ n.static_addresses = <<>> /\ n.static_routes = <<>>
\* the step ran link_enslaved: from link_initialized for a link without a virtual
\* parent, or from the reply to the last enslave request
EnslavedStep ==
    \/ /\ last'.h = "link_initialized"
       /\ network'.present /\ network'.netdevs = <<>>
    \/ /\ last'.h = "complete" /\ last'.a = "enslave" /\ last'.r = "OK"
       /\ state = LINK_STATE_ENSLAVING
       /\ enslaving = 1
\* C30: a step in which link_enslaved runs for a profile without DHCP, IPv4LL,
\* static addresses and static routes ends in CONFIGURED, with STATE=configured
\* written, no address or route request submitted and the three counters at zero.
C30_BareShortCircuit ==
    [][(EnslavedStep /\ Bare(network')) =>
          /\ state' = LINK_STATE_CONFIGURED
          /\ state_file'.state_line = "configured"
          /\ NewRequests("address_configure") = 0
          /\ NewRequests("route_configure") = 0
          /\ Outstanding("address_configure")' = 0 /\ Outstanding("route_configure")' = 0
          /\ addr_messages' = 0 /\ route_messages' = 0 /\ enslaving' = 0]_vars
\* the reply to the second enslave request configured a link with nothing to set
C30_Witness ==
    /\ Bare(network)
    /\ Len(network.netdevs) = 2
    /\ last.h = "complete" /\ last.a = "enslave" /\ last.from = LINK_STATE_ENSLAVING
    /\ state = LINK_STATE_CONFIGURED
\* link_initialized configured a link with nothing to set and no virtual parent
C30_WitnessAtOnce ==
    /\ Bare(network)
    /\ last.h = "link_initialized" /\ last.from = LINK_STATE_INITIALIZING
    /\ state = LINK_STATE_CONFIGURED
    /\ Pending = 0

\* ---------------------------------------------------------------- C31
\* link_initialized leaves the Link as it is, whatever the matcher finds
InitializedIsNoOp == \A match \in Profiles \cup {NullNetwork} : link_initialized(World, match) = World
\* C31: a Link leaves INITIALIZING only in a step of link_initialized in which a
\* profile was matched; link_initialized without a match leaves the Link as it
\* was, INITIALIZING with no profile, no sub-client and nothing submitted; for a
\* Link that has left INITIALIZING link_initialized changes nothing, and the
\* profile of a Link never changes once it is set.
C31_InitializedOnce ==
    /\ [](state = LINK_STATE_INITIALIZING =>
             /\ ~network.present
             /\ ~dhcp_client.present /\ ~ipv4ll.present
             /\ rtnl = <<>>
             /\ link_initialized(World, NullNetwork) = World)
    /\ [](state # LINK_STATE_INITIALIZING => network.present /\ InitializedIsNoOp)
    /\ [][/\ (state = LINK_STATE_INITIALIZING /\ state' # LINK_STATE_INITIALIZING) =>
                last'.h = "link_initialized" /\ network'.present
          /\ (last'.h = "link_initialized" /\ ~network'.present) =>
                /\ state' = LINK_STATE_INITIALIZING
                /\ UNCHANGED <<dhcp_client, ipv4ll, rtnl, state_file, flags>>
          /\ network.present => network' = network]_vars
\* the matcher found nothing for a Link that had seen an RTM_NEWLINK
C31_Witness ==
    /\ last.h = "link_initialized"
    /\ state = LINK_STATE_INITIALIZING
    /\ ~network.present
    /\ flags # {}
\* a Link with a profile that has left INITIALIZING
C31_WitnessMatched ==
    /\ state = LINK_STATE_CONFIGURED
    /\ network.dhcp
    /\ InitializedIsNoOp

\* ---------------------------------------------------------------- C32
\* the profile enables DHCP or IPv4LL
Dynamic(n) == n.present /\ (n.dhcp \/ n.ipv4ll)
\* the stage link_enslaved leaves a link without DHCP and IPv4LL in: the first one
\* that has something to submit
StageAfterEnslaved(n) ==
    IF n.static_addresses # <<>> THEN LINK_STATE_SETTING_ADDRESSES
    ELSE IF n.static_routes # <<>> THEN LINK_STATE_SETTING_ROUTES
    ELSE LINK_STATE_CONFIGURED
\* the step handled a DHCP event that acquires a lease, or an IPv4LL BIND
AcquireStep ==
    \/ last'.h = "dhcp_handler" /\ last'.a \in {DHCP_EVENT_IP_ACQUIRE, DHCP_EVENT_IP_CHANGE}
    \/ last'.h = "ipv4ll_handler" /\ last'.a = IPV4LL_EVENT_BIND
\* C32: a step in which link_enslaved runs submits SETLINK bringing the link up
\* exactly when IFF_UP is not in the flags; without DHCP and IPv4LL in the profile
\* the step enters SETTING_ADDRESSES (and passes on at once through every stage
\* that has nothing to submit), with DHCP or IPv4LL it leaves the link in ENSLAVING
\* with no address or route submitted; such a link leaves ENSLAVING for a
\* configuration stage only in a step handling IP_ACQUIRE, IP_CHANGE or BIND, and
\* then for SETTING_ADDRESSES.
C32_EnslavedThenWaits ==
    [][/\ EnslavedStep =>
             /\ NewRequests("link_up") = (IF IFF_UP \in flags THEN 0 ELSE 1)
             /\ IF Dynamic(network')
                THEN /\ state' = LINK_STATE_ENSLAVING
                     /\ NewRequests("address_configure") = 0
                     /\ NewRequests("route_configure") = 0
                ELSE /\ state' = StageAfterEnslaved(network')
                     /\ NewRequests("address_configure") = Len(network'.static_addresses)
       /\ (Dynamic(network) /\ state = LINK_STATE_ENSLAVING
             /\ state' \notin {LINK_STATE_ENSLAVING, LINK_STATE_FAILED}) =>
             state' = LINK_STATE_SETTING_ADDRESSES /\ AcquireStep]_vars
\* the reply to the enslave request left a link that waits for a lease or a claim
\* in ENSLAVING, with SETLINK submitted
C32_Witness ==
    /\ Dynamic(network)
    /\ last.h = "complete" /\ last.a = "enslave" /\ last.r = "OK"
    /\ state = LINK_STATE_ENSLAVING
    /\ enslaving = 0
    /\ Outstanding("link_up") = 1
\* link_enslaved ran for a link that was up: addresses submitted and no SETLINK
C32_WitnessStatic ==
    /\ ~Dynamic(network) /\ network.present
    /\ last.h = "link_initialized"
    /\ state = LINK_STATE_SETTING_ADDRESSES
    /\ IFF_UP \in flags
    /\ Outstanding("link_up") = 0
\* a link that waited in ENSLAVING entered SETTING_ADDRESSES on BIND
C32_WitnessBind ==
    /\ last.h = "ipv4ll_handler" /\ last.a = IPV4LL_EVENT_BIND
    /\ last.from = LINK_STATE_ENSLAVING
    /\ state = LINK_STATE_SETTING_ADDRESSES
    /\ enslaving = 0

\* ---------------------------------------------------------------- C33
\* the step handled IP_ACQUIRE, or IP_CHANGE for a link that is not critical, in a
\* state other than FAILED
DhcpAcquireStep ==
    /\ last'.h = "dhcp_handler"
    /\ \/ last'.a = DHCP_EVENT_IP_ACQUIRE
       \/ last'.a = DHCP_EVENT_IP_CHANGE /\ ~network.dhcp_critical
    /\ state # LINK_STATE_FAILED
\* the step handled BIND in a state other than FAILED
BindStep ==
    /\ last'.h = "ipv4ll_handler" /\ last'.a = IPV4LL_EVENT_BIND
    /\ state # LINK_STATE_FAILED
\* the requests a step submitted (a reply takes the head of the queue away), and
\* the address-configure requests among them
NewlySubmitted ==
    SubSeq(rtnl', IF last'.h = "complete" THEN Len(rtnl) ELSE Len(rtnl) + 1, Len(rtnl'))
SubmittedAddresses == SelectSeq(NewlySubmitted, LAMBDA q : q.kind = "address_configure")
\* the number of addresses of a full set: the static ones and one dynamic one
FullSet == Len(network'.static_addresses) + 1
\* C33: a step handling IP_ACQUIRE, IP_CHANGE for a link that is not critical, or
\* BIND, in any state but FAILED, ends in SETTING_ADDRESSES with the full address
\* set submitted and addr_messages increased by the number of addresses
\* submitted; after the DHCP events the Link holds the lease the client reported
\* and the leased address submitted is that of this lease.
C33_AcquireRegresses ==
    [][/\ (DhcpAcquireStep \/ BindStep) =>
             /\ state' = LINK_STATE_SETTING_ADDRESSES
             /\ Len(SubmittedAddresses) = FullSet
             /\ addr_messages' = addr_messages + Len(SubmittedAddresses)
             /\ \A i \in 1..Len(network'.static_addresses) :
                   SubmittedAddresses[i] = StaticAddressReqs(network')[i]
       /\ DhcpAcquireStep =>
             /\ dhcp_lease' = dhcp_client'.lease
             /\ dhcp_lease' # NoLease
             /\ SubmittedAddresses[FullSet] = DhcpAddressReq(dhcp_lease')]_vars
\* IP_ACQUIRE regressed a CONFIGURED link
C33_Witness ==
    /\ last.h = "dhcp_handler" /\ last.a = DHCP_EVENT_IP_ACQUIRE
    /\ last.from = LINK_STATE_CONFIGURED
    /\ state = LINK_STATE_SETTING_ADDRESSES
    /\ addr_messages > 0
\* BIND regressed a link in SETTING_ROUTES
C33_WitnessBind ==
    /\ last.h = "ipv4ll_handler" /\ last.a = IPV4LL_EVENT_BIND
    /\ last.from = LINK_STATE_SETTING_ROUTES
    /\ state = LINK_STATE_SETTING_ADDRESSES
\* IP_CHANGE regressed a link that had addresses of the earlier pass outstanding
C33_WitnessChange ==
    /\ last.h = "dhcp_handler" /\ last.a = DHCP_EVENT_IP_CHANGE
    /\ last.from = LINK_STATE_SETTING_ADDRESSES
    /\ state = LINK_STATE_SETTING_ADDRESSES
    /\ addr_messages > 1

\* ---------------------------------------------------------------- C34
\* the route-configure requests among those a step submitted
SubmittedRoutes == SelectSeq(NewlySubmitted, LAMBDA q : q.kind = "route_configure")
\* the Link holds a claimed link-local address and no lease
LinkLocalInUse == ipv4ll.present /\ ipv4ll_is_bound(ipv4ll) /\ dhcp_lease = NoLease
\* the address set and the route set of a pass, for the Link as it is
AddressSet ==
    [i \in 1..Len(network.static_addresses) |->
        Req("address_configure", "static", network.static_addresses[i])]
    \o (IF LinkLocalInUse THEN <<Req("address_configure", "ipv4ll", 1)>> ELSE <<>>)
    \o (IF dhcp_lease # NoLease THEN <<Req("address_configure", "dhcp", dhcp_lease)>> ELSE <<>>)
RouteSet ==
    [i \in 1..Len(network.static_routes) |->
        Req("route_configure", "static", network.static_routes[i])]
    \o (IF LinkLocalInUse THEN <<Req("route_configure", "ipv4ll", 0)>> ELSE <<>>)
    \o (IF dhcp_lease # NoLease
        THEN <<Req("route_configure", "gateway", dhcp_lease),
               Req("route_configure", "default", dhcp_lease)>>
        ELSE <<>>)
\* the number of bits of a prefix that fall into octet k
PrefixBits(p, k) == IF p >= 8 * k THEN 8 ELSE IF p <= 8 * (k - 1) THEN 0 ELSE p - 8 * (k - 1)
\* the netmask of a prefix length, and the address with every host bit set
Netmask(p) == [k \in 1..4 |-> 256 - 2 ^ (8 - PrefixBits(p, k))]
AllHostBits(addr, p) ==
    [k \in 1..4 |-> LET h == 2 ^ (8 - PrefixBits(p, k)) IN (addr[k] \div h) * h + h - 1]
SampleAddresses == {LeaseAddress(1), LeaseAddress(2), Ipv4llClaimed, <<255, 255, 255, 255>>, <<0, 0, 0, 0>>}
\* the attributes of the dynamic addresses, for every sample address and every
\* prefix length
AttributesRight ==
    \A addr \in SampleAddresses :
       /\ \A p \in 0..32 :
             LET a == DhcpAddress(addr, Netmask(p)) IN
             /\ a.in_addr = addr
             /\ a.prefixlen = p
             /\ a.broadcast = AllHostBits(addr, p)
       /\ LET ll == Ipv4llAddress(addr) IN
          /\ ll.in_addr = addr /\ ll.prefixlen = 16 /\ ll.scope = "RT_SCOPE_LINK"
          /\ ll.broadcast = AllHostBits(addr, 16)
\* C34: a step that submits addresses submits the address set of the Link as the
\* step leaves it: every static address, then the link-local address exactly when
\* IPv4LL is bound and no lease is held, then the leased address exactly when a
\* lease is held; a step that submits routes submits the static routes, then the
\* link-local route exactly when IPv4LL is bound and no lease is held, then the
\* host route to the gateway and the default route exactly when a lease is held.
\* The link-local address has prefix length 16, scope LINK and every host bit set
\* in its broadcast address, its route has scope LINK and metric 99; the leased
\* address has the prefix length of its netmask and broadcast = addr | ~netmask,
\* for every prefix length.
C34_PassComposition ==
    /\ [][/\ SubmittedAddresses # <<>> => SubmittedAddresses = AddressSet'
          /\ SubmittedRoutes # <<>> => SubmittedRoutes = RouteSet']_vars
    /\ []AttributesRight
    /\ [](\A i \in 1..Len(rtnl) :
             LET q == rtnl[i] IN
             /\ (q.kind = "address_configure" /\ q.obj = "dhcp") =>
                   /\ Payload(q).in_addr = LeaseAddress(q.arg)
                   /\ Payload(q).broadcast = AllHostBits(LeaseAddress(q.arg), Payload(q).prefixlen)
             /\ (q.kind = "route_configure" /\ q.obj = "ipv4ll") =>
                   Payload(q).scope = "RT_SCOPE_LINK" /\ Payload(q).metrics = 99
             /\ (q.kind = "route_configure" /\ q.obj = "gateway") =>
                   /\ Payload(q).dst_addr = LeaseRouter(q.arg)
                   /\ Payload(q).dst_prefixlen = 32 /\ Payload(q).scope = "RT_SCOPE_LINK"
             /\ (q.kind = "route_configure" /\ q.obj = "default") =>
                   Payload(q).in_addr = LeaseRouter(q.arg))
\* a pass submitted a static address and the leased address, IPv4LL being bound
C34_Witness ==
    /\ state = LINK_STATE_SETTING_ADDRESSES
    /\ dhcp_lease # NoLease
    /\ \E i \in 1..Len(rtnl) : rtnl[i] = Req("address_configure", "dhcp", dhcp_lease)
    /\ \E i \in 1..Len(rtnl) : rtnl[i].kind = "address_configure" /\ rtnl[i].obj = "static"
\* a pass submitted the link-local route
C34_WitnessLinkLocal ==
    /\ state = LINK_STATE_SETTING_ROUTES
    /\ LinkLocalInUse
    /\ rtnl = <<Req("route_configure", "ipv4ll", 0)>>
\* a pass submitted the two routes of a lease while IPv4LL is bound
C34_WitnessLeaseRoutes ==
    /\ state = LINK_STATE_SETTING_ROUTES
    /\ ipv4ll_is_bound(ipv4ll) /\ dhcp_lease # NoLease
    /\ Outstanding("route_configure") = 2

\* --------------------------------------------------------------- C35
\* the reply to an address request is being delivered
AddressCompletion == last'.h = "complete" /\ last'.a = "address_configure"
\* C35: every address reply is delivered while addr_messages > 0 and the link is
\* in SETTING_ADDRESSES or FAILED (address_handler's two assertions never fail),
\* so no address request is in flight for a link in SETTING_ROUTES or CONFIGURED
\* and no address reply moves such a link.
C35_AddressCompletionInStage ==
    /\ [](aborted \notin {"address_handler: addr_messages", "address_handler: state"})
    /\ [](state \in {LINK_STATE_SETTING_ROUTES, LINK_STATE_CONFIGURED}
             => Outstanding("address_configure") = 0)
    /\ [][AddressCompletion =>
             /\ addr_messages > 0
             /\ state \in {LINK_STATE_SETTING_ADDRESSES, LINK_STATE_FAILED}
             /\ addr_messages' = addr_messages - 1]_vars
\* a reply of an earlier pass was delivered while the requests of a later pass
\* (submitted by a DHCP or IPv4LL event in SETTING_ADDRESSES) are in flight
C35_Witness ==
    /\ last.h = "complete" /\ last.a = "address_configure"
    /\ last.from = LINK_STATE_SETTING_ADDRESSES
    /\ state = LINK_STATE_SETTING_ADDRESSES
    /\ Outstanding("address_configure") > Len(network.static_addresses) + 1
\* an address reply was delivered to a FAILED link
C35_WitnessFailed ==
    /\ last.h = "complete" /\ last.a = "address_configure"
    /\ last.from = LINK_STATE_FAILED
    /\ state = LINK_STATE_FAILED

\* --------------------------------------------------------------- C36
\* C36: in every reachable state addr_messages, route_messages and enslaving are
\* the numbers of address, route and enslave requests submitted and not yet
\* answered, and none of them is negative (in every state of the running
\* daemon: a failed assertion ends the process in the middle of a handler).
C36_CountersAreAccurate ==
    /\ addr_messages >= 0 /\ route_messages >= 0 /\ enslaving >= 0
    /\ Alive =>
          /\ addr_messages = Outstanding("address_configure")
          /\ route_messages = Outstanding("route_configure")
          /\ enslaving = Outstanding("enslave")
\* a reply was delivered to a FAILED link while address and route requests of the
\* passes before the failure are still counted
C36_Witness ==
    /\ last.h = "complete" /\ last.from = LINK_STATE_FAILED
    /\ state = LINK_STATE_FAILED
    /\ addr_messages + route_messages > 0
\* a regression: requests of two address passes are counted together
C36_WitnessRegression ==
    /\ last.h \in {"dhcp_handler", "ipv4ll_handler"}
    /\ last.from = LINK_STATE_SETTING_ADDRESSES
    /\ state = LINK_STATE_SETTING_ADDRESSES
    /\ addr_messages > Len(network.static_addresses) + 1
\* an enslave request is counted
C36_WitnessEnslaving ==
    /\ state = LINK_STATE_ENSLAVING /\ enslaving > 1

\* --------------------------------------------------------------- C37
\* link_add has just returned an error
FailedAdd == last'.h = "link_add" /\ last'.r # "OK"
\* C37: a link_add that fails (wrong message type, ifindex <= 0, a failed
\* allocation, or an ifindex the registry holds) leaves every Link that was
\* registered before the call registered under its ifindex, the one registered
\* under the call's own ifindex included.
C37_FailedAddKeepsRegistry ==
    [][FailedAdd => \A i \in DOMAIN links : hashmap_get(links', i) = links[i]]_vars
\* the same for the calls made for an ifindex the registry does not hold
C37_FailedFirstAddKeepsRegistry ==
    [][(FailedAdd /\ last'.a \notin {ToString(i) : i \in DOMAIN links})
          => \A i \in DOMAIN links : hashmap_get(links', i) = links[i]]_vars
\* a link_add for a registered ifindex was refused
C37_Witness ==
    /\ last.h = "link_add" /\ last.r = "EEXIST"

\* --------------------------------------------------------------- C38
\* C38: between two handlers, once the state file has been written, its STATE=
\* line is the string of the Link's state and it has a DHCP_LEASE= line exactly
\* when the Link holds a lease.
C38_StateFileIsCurrent ==
    (Alive /\ state_file.written) =>
        /\ state_file.state_line = link_state_to_string(state)
        /\ state_file.lease_line = (dhcp_lease # NoLease)
\* the STATE= line alone
C38_StateLineIsCurrent ==
    (Alive /\ state_file.written) => state_file.state_line = link_state_to_string(state)
\* the DHCP_LEASE= line alone
C38_LeaseLineIsCurrent ==
    (Alive /\ state_file.written) => state_file.lease_line = (dhcp_lease # NoLease)
\* a CONFIGURED link went back to SETTING_ADDRESSES and the file still says
\* STATE=configured
C38_StaleAfterRegression ==
    /\ Alive
    /\ last.from = LINK_STATE_CONFIGURED
    /\ state = LINK_STATE_SETTING_ADDRESSES
    /\ state_file.written /\ state_file.state_line = "configured"
\* a CONFIGURED link lost its lease and the file still has the DHCP_LEASE= line
C38_StaleAfterLeaseLost ==
    /\ Alive
    /\ last.h = "dhcp_handler" /\ last.from = LINK_STATE_CONFIGURED
    /\ state = LINK_STATE_CONFIGURED
    /\ dhcp_lease = NoLease
    /\ state_file.written /\ state_file.lease_line

\* --------------------------------------------------------------- C39
\* C39: between two handlers a link in SETTING_ADDRESSES has addr_messages > 0
\* and a link in SETTING_ROUTES has route_messages > 0, also after
\* link_enter_set_addresses or link_enter_set_routes returned early.
C39_NoStuckStage ==
    Alive =>
        /\ state = LINK_STATE_SETTING_ADDRESSES => addr_messages > 0
        /\ state = LINK_STATE_SETTING_ROUTES => route_messages > 0
\* the link is in a stage with nothing counted and nothing in flight: no reply
\* will ever advance it
C39_Stuck ==
    /\ Alive
    /\ state \in {LINK_STATE_SETTING_ADDRESSES, LINK_STATE_SETTING_ROUTES}
    /\ addr_messages = 0 /\ route_messages = 0
    /\ Quiescent
\* the same after link_enter_set_routes returned early
C39_StuckInRoutes == C39_Stuck /\ state = LINK_STATE_SETTING_ROUTES
====
